---- MODULE Spec2Model ----
(***************************************************************************)
(* Installation-source resolver of linuxrc (src/url.c).                    *)
(*                                                                         *)
(* Spec          the Mount Orchestrator: url_umount, url_mount and         *)
(*               url_mount_disk against a hardware list and an OS mount    *)
(*               table, with a caller-supplied accept test.                *)
(* SpecRepo      url_find_repo: url_mount with test_is_repo as accept test.*)
(* SpecTransfer  the Transfer Pipeline: url_read and url_write_cb.         *)
(***************************************************************************)
EXTENDS Integers, Sequences, FiniteSets, TLC

(***************************************************************************)
(* Bounds of the model.                                                    *)
(***************************************************************************)
\* longest hardware list hd_list() returns
MaxHd == 2
\* util_umount() calls that fail on an active mount
MaxUmountFail == 1
\* mounts test_is_repo stacks on config.mountpoint.instsys
MaxInstsys == 2

NULL == "NULL"

(***************************************************************************)
(* Mountpoints and the OS mount table.                                     *)
(***************************************************************************)
MpNames == << "mp_0000", "mp_0001", "mp_0002", "mp_0003", "mp_0004", "mp_0005" >>

\* the temporary mountpoints new_mountpoint() allocates: those one
\* url_mount_disk call can need, and one for every mount left behind
TmpMps == { MpNames[i] : i \in 1..(MaxUmountFail + 3) }

\* "dir": the caller's target directory; "instsys": config.mountpoint.instsys
AllMps == TmpMps \cup { "dir", "instsys" }

Rec(S, r) == [S |-> S, ret |-> r]

\* the record of an OS call that changed the mount table, or failed to unmount
\* an active mount: what was mounted (src) and where (mp)
LogOp(S, op, mp, src, ok) ==
  [S EXCEPT !.log = Append(@, [op |-> op, mp |-> mp, src |-> src, ok |-> ok])]

Active(mnt, mp) == mp # NULL /\ mnt[mp] > 0

\* temporary mountpoints neither mounted nor referenced
FreeMps(S) ==
  { m \in TmpMps :
      /\ S.mounts[m] = 0
      /\ m \notin { S.url.mount, S.url.tmp_mount, S.cfg.instsys2_mount } }

\* new_mountpoint(): a mountpoint path not in use
new_mountpoint(S) == CHOOSE m \in FreeMps(S) : TRUE

\* util_umount(dir): 0 when the mount was removed, non-zero otherwise
util_umount(S, mp) ==
  IF mp = NULL THEN { Rec(S, 1) }
  ELSE IF S.mounts[mp] = 0 THEN { Rec(S, 1) }
  ELSE { Rec([LogOp(S, "umount", mp, NULL, TRUE) EXCEPT !.mounts[mp] = @ - 1], 0) }
       \cup
       ( IF S.nfail < MaxUmountFail
         THEN { Rec([LogOp(S, "umount", mp, NULL, FALSE) EXCEPT !.nfail = @ + 1], 1) }
         ELSE {} )

\* a mount call of src on mountpoint mp: `zero' on success, else one of `errs'
os_mount(S, mp, src, zero, errs) ==
  { Rec([S EXCEPT !.log = Append(@, [op |-> "mountfail", mp |-> mp, src |-> src,
                                     ok |-> FALSE, val |-> e])], e) : e \in errs }
  \cup { Rec([LogOp(S, "mount", mp, src, TRUE) EXCEPT !.mounts[mp] = @ + 1], zero) }

\* util_mount_ro(dev, dir): 0 on success
util_mount_ro(S, src, mp) == os_mount(S, mp, src, 0, { 1 })

\* errno values net_mount_nfs() reports, and "0" for success
ENOTDIR == "ENOTDIR"
ENOENT == "ENOENT"
EACCES == "EACCES"
ESUCCESS == "0"

\* net_mount_nfs(mountpoint, server, path): 0 or an errno
net_mount_nfs(S, mp, src) ==
  os_mount(S, mp, src, ESUCCESS, { ENOTDIR, ENOENT, EACCES })

\* net_mount_smb(mountpoint, server, share, user, password, domain)
net_mount_smb(S, mp) == os_mount(S, mp, "smb_share", 0, { 1 })

(***************************************************************************)
(* url_umount: unmount the volumes used by url.                            *)
(***************************************************************************)
url_umount(S) ==
  UNION {
    LET S1 == IF r1.ret = 0 THEN [r1.S EXCEPT !.url.mount = NULL] ELSE r1.S
    IN  { IF r2.ret # 0 THEN [r2.S EXCEPT !.url.tmp_mount = NULL] ELSE r2.S
          : r2 \in util_umount(S1, S1.url.tmp_mount) }
    : r1 \in util_umount(S, S.url.mount) }

(***************************************************************************)
(* url_setup_device: load fs module or set up the network interface.       *)
(* Returns 0: failed, 1: ok.                                               *)
(***************************************************************************)
\* device names beginning with "lo" only
IsLoopbackDev(dev) == dev = "lo"

\* device names beginning with "lo" or "sit"
IsPseudoDev(dev) == dev \in { "lo", "sit0" }

\* what url_set(slp_get_install(url)) can yield with a scheme set
SlpUrls ==
  { [scheme |-> "nfs", path |-> "/a/b", device |-> NULL, server |-> "srv2",
     share |-> NULL, user |-> NULL, password |-> NULL, domain |-> NULL],
    [scheme |-> "http", path |-> "", device |-> NULL, server |-> "srv2",
     share |-> NULL, user |-> "user", password |-> "pw", domain |-> NULL] }

\* the address name2inet() and net_check_address2() leave in url->used.server
\* for a server name that resolves and is valid, and for one that is not
Resolved(name) == "ip:" \o name
Unresolved(name) == "name:" \o name

usd_fail(S) == Rec([S EXCEPT !.cfg.net_configured = "nc_none"], 0)

\* the request sent once more after an incomplete answer
usd_request_twice(S, use_dhcp, complete, test) ==
  LET Req(T, c) == [T EXCEPT !.log = Append(@, [op |-> "request", mp |-> NULL,
                                                src |-> IF use_dhcp THEN "dhcp" ELSE "bootp",
                                                ok |-> c, val |-> test])]
      S3 == IF ~test /\ ~complete THEN Req(Req(S, complete), TRUE) ELSE Req(S, complete)
  IN  Rec([S3 EXCEPT !.cfg.net_configured =
                       IF use_dhcp THEN "nc_dhcp" ELSE "nc_bootp"], 1)

\* net_dhcp() or net_bootp() as config.net.use_dhcp says; `complete': the
\* answer has hostname, netmask and broadcast; `test': config.test
usd_request(S, use_dhcp, complete, test) ==
  LET S3 == [S EXCEPT !.log = Append(@, [op |-> "request", mp |-> NULL,
                                         src |-> IF use_dhcp THEN "dhcp" ELSE "bootp",
                                         ok |-> complete, val |-> test])]
  IN  IF ~test /\ ~complete THEN usd_fail(S3)
      ELSE Rec([S3 EXCEPT !.cfg.net_configured =
                            IF use_dhcp THEN "nc_dhcp" ELSE "nc_bootp"], 1)

\* static parameters if net_config_mask() has ip and netmask, else one request
usd_acquire(S) ==
  LET S2 == [S EXCEPT !.cfg.net_configured = "nc_static"]
      Mask(ok) == LogOp(S2, "mask", NULL, S.url.used.device, ok)
  IN  { Rec(Mask(TRUE), 1) }
      \cup { usd_request(Mask(FALSE), S.cfg.use_dhcp, c, S.cfg.test) : c \in BOOLEAN }

\* net_activate_ns()
usd_activate(S) ==
  { usd_fail(S), Rec(LogOp(S, "activate", NULL, S.url.used.device, TRUE), 1) }

\* the fields url_setup_device copies from the Url SLP discovery found
SlpRewrite(u, t) ==
  [u EXCEPT !.scheme = t.scheme, !.path = t.path, !.device = t.device,
            !.server = t.server, !.share = t.share, !.user = t.user,
            !.password = t.password, !.domain = t.domain]

\* SLP discovery rewriting the url before it finds that there is no scheme
usd_slp_rewrite_first(S) ==
  IF S.url.scheme = "slp"
  THEN { Rec([LogOp(S, "slp", NULL, S.url.used.device, FALSE)
                EXCEPT !.url = SlpRewrite(@, [t EXCEPT !.scheme = "none"])], 0)
         : t \in SlpUrls }
       \cup { Rec([LogOp(S, "slp", NULL, S.url.used.device, TRUE)
                     EXCEPT !.url = SlpRewrite(@, t)], 1) : t \in SlpUrls }
  ELSE { Rec(S, 1) }

\* SLP discovery and the rewrite of the url
usd_slp(S) ==
  IF S.url.scheme = "slp"
  THEN { Rec(LogOp(S, "slp", NULL, S.url.used.device, FALSE), 0) }
       \cup { Rec([LogOp(S, "slp", NULL, S.url.used.device, TRUE)
                     EXCEPT !.url = SlpRewrite(@, t)], 1) : t \in SlpUrls }
  ELSE { Rec(S, 1) }

\* name2inet() and net_check_address2()
usd_address(S) ==
  { usd_fail([LogOp(S, "resolve", NULL, S.url.server, FALSE)
                EXCEPT !.url.used.server = Unresolved(S.url.server)]),
    Rec([LogOp(S, "resolve", NULL, S.url.server, TRUE)
           EXCEPT !.url.used.server = Resolved(S.url.server)], 1) }

usd_network(S) ==
  LET S1 == [LogOp(S, "net_stop", NULL, S.url.used.device, TRUE)
               EXCEPT !.cfg.net_configured = "nc_none",
                      !.cfg.net_device = S.url.used.device,
                      !.cfg.net_hwaddr = S.url.used.hwaddr,
                      !.cfg.net_cardname = S.url.used.model,
                      !.cfg.net_unique_id = S.url.used.unique_id]
  IN  (IF S.url.is.wlan THEN { Rec(S1, 0) } ELSE {})
      \cup UNION {
             IF a.ret = 0 THEN { a }
             ELSE UNION {
                    IF b.ret = 0 THEN { b }
                    ELSE UNION { IF c.ret = 0 THEN { c } ELSE usd_address(c.S)
                                 : c \in usd_slp(b.S) }
                    : b \in usd_activate(a.S) }
             : a \in usd_acquire(S1) }

\* url_setup_device's result is recorded
usd_return(r) == Rec(LogOp(r.S, "setup", NULL, r.S.url.used.device, r.ret # 0), r.ret)

url_setup_device(S) ==
  { usd_return(r) :
      r \in IF S.url.scheme = "file" THEN { Rec(S, 1) }
            ELSE IF S.url.used.device = NULL THEN { Rec(S, 0) }
            ELSE IF ~S.url.is.network THEN { Rec(S, 1), Rec(S, 0) }
            ELSE IF /\ S.cfg.net_configured # "nc_none"
                    /\ S.cfg.net_device = S.url.used.device THEN { Rec(S, 1) }
            ELSE IF IsPseudoDev(S.url.used.device) THEN { Rec(S, 0) }
            ELSE usd_network(S) }

(***************************************************************************)
(* test_and_copy, the transfer nested in url_read_file: 1 ok, 0 failed.    *)
(* `digest' is what became of the download's digest: "none" when the       *)
(* transfer failed, "unchecked" outside secure mode or with                *)
(* URL_FLAG_NOSHA1, else "listed" or "unlisted" as config.sha1 has it for  *)
(* this file or not.                                                       *)
(***************************************************************************)
test_and_copy_strict(S, secure, nosha1) ==
  { [S |-> S, ret |-> 0, digest |-> "none"] }
  \cup ( IF secure /\ ~nosha1
         THEN { [S |-> S, ret |-> 1, digest |-> "listed"],
                [S |-> [S EXCEPT !.cfg.sha1_failed = TRUE], ret |-> 0,
                 digest |-> "unlisted"] }
         ELSE { [S |-> S, ret |-> 1, digest |-> "unchecked"] } )

test_and_copy(S, secure, nosha1) ==
  { [S |-> S, ret |-> 0, digest |-> "none"] }
  \cup ( IF secure /\ ~nosha1
         THEN { [S |-> S, ret |-> 1, digest |-> "listed"],
                [S |-> [S EXCEPT !.cfg.sha1_failed = TRUE], ret |-> 1,
                 digest |-> "unlisted"] }
         ELSE { [S |-> S, ret |-> 1, digest |-> "unchecked"] } )

\* the record of one url_read_file call: the file read (src), whether the call
\* returned 0 (ok), the digest's fate (val) and config.sha1_failed around it
LogRead(S, t, src, nosha1) ==
  [t.S EXCEPT !.log = Append(@, [op |-> "read", mp |-> NULL, src |-> src,
                                  ok |-> t.ret # 0, val |-> t.digest,
                                  nosha1 |-> nosha1,
                                  was |-> S.cfg.sha1_failed,
                                  now |-> t.S.cfg.sha1_failed])]

(***************************************************************************)
(* url_read_file of `src' below a url that is mounted or needs no mount:   *)
(* 0 ok, 1 failed.                                                         *)
(***************************************************************************)
url_read_file(S, conf, src, nosha1) ==
  { Rec(LogRead(S, t, src, nosha1), IF t.ret # 0 THEN 0 ELSE 1)
    : t \in test_and_copy(S, conf.secure, nosha1) }

(***************************************************************************)
(* test_is_repo: the accept test of url_find_repo.                         *)
(* Returns 0: failed, 1: ok.                                               *)
(***************************************************************************)
\* the second payload, after the first was mounted
tir_instsys2(S, conf, inplace) ==
  LET S1 == [S EXCEPT !.cfg.instsys2_mount = new_mountpoint(S)]
      mp == S1.cfg.instsys2_mount
      Mounted(M) == { IF m.ret = 0 THEN Rec(m.S, 1)
                      ELSE Rec([m.S EXCEPT !.cfg.instsys2_mount = NULL], 0)
                      : m \in M }
  IN  IF inplace
      THEN Mounted(util_mount_ro(S1, "instsys", mp))
      ELSE UNION { IF r.ret # 0 THEN { Rec(r.S, 1) }
                   ELSE Mounted(util_mount_ro(r.S, "download_instsys2", mp))
                   : r \in url_read_file(S1, conf, "instsys2", FALSE) }

\* after the first payload's mount attempt returned
tir_mounted(S, ok, conf, inplace) ==
  IF ok = 0 THEN { Rec(S, 0) }
  ELSE LET S1 == [S EXCEPT !.cfg.instsys_mount = "instsys"]
       IN  IF conf.get_instsys2 THEN tir_instsys2(S1, conf, inplace)
           ELSE { Rec(S1, 1) }

\* the first payload: mounted in place or downloaded and loop-mounted
tir_mount(S, conf, inplace) ==
  IF inplace
  THEN UNION { tir_mounted(m.S, IF m.ret = 0 THEN 1 ELSE 0, conf, inplace)
               : m \in util_mount_ro(S, "instsys", "instsys") }
  ELSE UNION { IF r.ret # 0 THEN tir_mounted(r.S, 0, conf, inplace)
               ELSE UNION { tir_mounted(m.S, IF m.ret = 0 THEN 1 ELSE 0, conf, inplace)
                            : m \in util_mount_ro(r.S, "download_instsys", "instsys") }
               : r \in url_read_file(S, conf, "instsys", FALSE) }

tir_instsys(S, conf) ==
  IF conf.instsys_scheme # "rel" \/ conf.kexec THEN { Rec(S, 1) }
  ELSE (IF S.url.is.mountable THEN { Rec(S, 0) } ELSE {})
       \cup tir_mount(S, conf, FALSE)
       \cup ( IF ~conf.download_instsys /\ ~conf.rescue /\ S.url.is.mountable
              THEN tir_mount(S, conf, TRUE)
              ELSE {} )

\* gpg's verdict on /content.asc: a bad signature is only noted, a good one
\* makes the manifest's digests trusted again
tir_verify(S, good) ==
  LET S1 == LogOp(S, "verify", NULL, "/content.asc", good)
  IN  IF good THEN [S1 EXCEPT !.cfg.sha1_failed = FALSE]
      ELSE [S1 EXCEPT !.cfg.sig_failed = TRUE]

\* (a variant that takes a missing /content.asc for a bad signature)
tir_secure_asc_optional(S, conf) ==
  IF conf.secure
  THEN UNION { IF r.ret # 0 THEN tir_instsys(tir_verify(r.S, FALSE), conf)
               ELSE UNION { tir_instsys(tir_verify(r.S, good), conf)
                            : good \in BOOLEAN }
               : r \in url_read_file(S, conf, "/content.asc", TRUE) }
  ELSE tir_instsys(S, conf)

\* the manifest's signature in secure mode
tir_secure(S, conf) ==
  IF conf.secure
  THEN UNION { IF r.ret # 0 THEN { Rec(r.S, 0) }
               ELSE UNION { tir_instsys(tir_verify(r.S, good), conf)
                            : good \in BOOLEAN }
               : r \in url_read_file(S, conf, "/content.asc", TRUE) }
  ELSE tir_instsys(S, conf)

test_is_repo(S, conf) ==
  IF \/ (S.url.mount = NULL /\ S.url.is.mountable)
     \/ conf.instsys_scheme = "none"
  THEN { Rec(S, 0) }
  ELSE UNION { IF r.ret # 0 THEN { Rec(r.S, 0) } ELSE tir_secure(r.S, conf)
               : r \in url_read_file(S, conf, "/content", TRUE) }

(***************************************************************************)
(* The accept test handed to url_mount: none (NULL), a caller's test       *)
(* honouring the documented contract (0 failed, 1 ok, 2 ok but continue    *)
(* search), or test_is_repo.                                               *)
(***************************************************************************)
test_func(S, test, conf) ==
  LET S0 == LogOp(S, "test", S.url.mount, test, TRUE)
      R == CASE test = "caller" -> { Rec(S0, 0), Rec(S0, 1), Rec(S0, 2) }
             [] test = "test_is_repo" -> test_is_repo(S0, conf)
             [] test \in { "test_and_copy", "test_and_copy_nosha1" } ->
                  { Rec(t.S, t.ret)
                    : t \in test_and_copy(S0, conf.secure, test = "test_and_copy_nosha1") }
  IN  { Rec([r.S EXCEPT !.log = Append(@, [op |-> "tested", mp |-> NULL, src |-> test,
                                           ok |-> r.ret # 0, val |-> r.ret])],
            r.ret) : r \in R }

(***************************************************************************)
(* url_mount_disk: mount url to dir; a temporary mountpoint if dir is NULL.*)
(* Returns 0: failed, 1: ok, 2: ok, but continue search.                   *)
(***************************************************************************)
\* dir ?: new_mountpoint()
DirOrNew(S, dir) == IF dir # NULL THEN dir ELSE new_mountpoint(S)

\* the characters of the paths the Urls carry
PathChars(path) ==
  CASE path = "/" -> << "/" >>
    [] path = "/x" -> << "/", "x" >>
    [] path = "/a/b" -> << "/", "a", "/", "b" >>
    [] path = "/a/b/" -> << "/", "a", "/", "b", "/" >>
    [] path = "/a" -> << "/", "a" >>
    [] path = "x" -> << "x" >>
    [] path = "a" -> << "a" >>
    [] path = "b" -> << "b" >>
    [] OTHER -> << >>

\* the string of a character sequence PathChars knows
PathStr(buf) ==
  CHOOSE p \in { "", "/", "/x", "/a", "/a/b", "/a/b/", "x", "a", "b" } : PathChars(p) = buf

\* the split at the last '/' taken whenever that is not the first character
HasParentNotFirst(path) ==
  LET buf == PathChars(path)
      I == { i \in 1..Len(buf) : buf[i] = "/" }
  IN  I # {} /\ (CHOOSE i \in I : \A j \in I : j <= i) # 1

\* (s = strrchr(buf, '/')) && s != buf && s[1]: the last '/' is not the first
\* character and is not the last one
HasParent(path) ==
  LET buf == PathChars(path)
      I == { i \in 1..Len(buf) : buf[i] = "/" }
  IN  /\ I # {}
      /\ LET s == CHOOSE i \in I : \A j \in I : j <= i
         IN  s # 1 /\ s < Len(buf)

\* util_check_exist(path): 0 (here "0"), 'r', 'b' or 'd'. The root of a mounted
\* share is a directory; a device that passed util_fstype() is a block device.
util_check_exist(path) ==
  CASE path = "mount" -> { "d" }
    [] path = "device" -> { "b" }
    [] OTHER -> { "0", "r", "b", "d" }

\* the failure path with the two unmounts swapped
umd_unwind_tmp_first(S) ==
  UNION { { Rec([r2.S EXCEPT !.url.tmp_mount = NULL, !.url.mount = NULL], 0)
            : r2 \in util_umount(r1.S, r1.S.url.mount) }
          : r1 \in util_umount(S, S.url.tmp_mount) }

\* the failure path: unmount and forget mount and tmp_mount
umd_unwind(S) ==
  UNION { { Rec([r2.S EXCEPT !.url.tmp_mount = NULL, !.url.mount = NULL], 0)
            : r2 \in util_umount(r1.S, r1.S.url.tmp_mount) }
          : r1 \in util_umount(S, S.url.mount) }

\* the accept test; a rejected mount is forgotten but not unmounted
umd_finish_forget(S, ok, test, conf) ==
  IF ok = 0 THEN umd_unwind(S)
  ELSE IF test = NULL THEN { Rec(S, ok) }
  ELSE UNION { IF r.ret = 0
               THEN { Rec([r.S EXCEPT !.url.tmp_mount = NULL, !.url.mount = NULL], 0) }
               ELSE { r }
               : r \in test_func(S, test, conf) }

\* the accept test asked whether or not the mount steps succeeded
umd_finish_test_always(S, ok, test, conf) ==
  IF test = NULL THEN (IF ok = 0 THEN umd_unwind(S) ELSE { Rec(S, ok) })
  ELSE UNION { IF r.ret = 0 THEN umd_unwind(r.S) ELSE { r }
               : r \in test_func(S, test, conf) }

\* the accept test, and the unwinding if the mount or the test failed
umd_finish(S, ok, test, conf) ==
  IF ok = 0 THEN umd_unwind(S)
  ELSE IF test = NULL THEN { Rec(S, ok) }
  ELSE UNION { IF r.ret = 0 THEN umd_unwind(r.S) ELSE { r }
               : r \in test_func(S, test, conf) }

\* a file or block device that is downloaded and loop-mounted
umd_copy(S, dir, conf) ==
  LET S1 == [S EXCEPT !.url.mount = DirOrNew(S, dir)]
  IN  UNION { IF r.ret # 0
              THEN { Rec(LogOp(LogOp(r.S, "copy", NULL, "download", FALSE),
                               "unlink", NULL, "download", TRUE), 0) }
              ELSE { IF m.ret = 0 THEN Rec(m.S, 1)
                     ELSE Rec(LogOp(m.S, "unlink", NULL, "download", TRUE), 0)
                     : m \in util_mount_ro(LogOp(r.S, "copy", NULL, "download", TRUE),
                                           "download", r.S.url.mount) }
              : r \in url_read_file(S1, conf, S.url.path, FALSE) }

\* a path that is mounted as it is
umd_direct(S, path, dir) ==
  IF S.url.mount = NULL
  THEN LET S1 == [S EXCEPT !.url.mount = DirOrNew(S, dir)]
       IN  { Rec(m.S, IF m.ret = 0 THEN 1 ELSE 0)
             : m \in util_mount_ro(S1, path, S1.url.mount) }
  ELSE { Rec(S, 1) }

\* util_is_mountable(file): whether the file holds a file system image or an
\* archive that can be mounted as it is
util_is_mountable(path) == BOOLEAN

\* util_check_exist(path) is recorded with its result
LogExist(S, path, ft) ==
  [S EXCEPT !.log = Append(@, [op |-> "exist", mp |-> NULL, src |-> path,
                               ok |-> ft # "0", val |-> ft])]

\* the copy is made for whatever exists at the path when download is set
umd_file_type_any(S, path, ft, dir, conf) ==
  LET S0 == LogExist(S, path, ft)
      S1 == IF ft = "r" THEN [S0 EXCEPT !.url.is.file = TRUE] ELSE S0
  IN  IF ft = "0" THEN { Rec(S1, 0) }
      ELSE IF S1.url.download THEN umd_copy(S1, dir, conf)
      ELSE IF ft \in { "r", "b" }
      THEN UNION { IF m THEN umd_direct(LogOp(S1, "mountable", NULL, path, TRUE), path, dir)
                   ELSE umd_copy(LogOp(S1, "mountable", NULL, path, FALSE), dir, conf)
                   : m \in util_is_mountable(path) }
      ELSE umd_direct(S1, path, dir)

\* the path's file type decides between copy and mount
umd_file_type(S, path, ft, dir, conf) ==
  LET S0 == LogExist(S, path, ft)
      S1 == IF ft = "r" THEN [S0 EXCEPT !.url.is.file = TRUE] ELSE S0
  IN  IF ft = "0" THEN { Rec(S1, 0) }
      ELSE IF ft \in { "r", "b" } /\ S1.url.download THEN umd_copy(S1, dir, conf)
      ELSE IF ft \in { "r", "b" }
      THEN UNION { IF m THEN umd_direct(LogOp(S1, "mountable", NULL, path, TRUE), path, dir)
                   ELSE umd_copy(LogOp(S1, "mountable", NULL, path, FALSE), dir, conf)
                   : m \in util_is_mountable(path) }
      ELSE umd_direct(S1, path, dir)

\* what the mount steps left is classified, unless they failed
umd_classify(S, path, err, dir, conf) ==
  IF err THEN { Rec(S, 0) }
  ELSE IF ~S.url.is.mountable THEN { Rec(S, 1) }
  ELSE UNION { umd_file_type(S, path, ft, dir, conf)
               : ft \in util_check_exist(path) }

umd_after(S, path, err, dir, test, conf) ==
  UNION { umd_finish(r.S, r.ret, test, conf)
          : r \in umd_classify(S, path, err, dir, conf) }

\* nfs: the server path, and on ENOTDIR/ENOENT its parent directory
umd_nfs(S, dir, test, conf) ==
  LET S1 == [S EXCEPT !.url.mount = DirOrNew(S, dir)]
  IN  UNION {
        IF r.ret \in { ENOTDIR, ENOENT }
        THEN LET S2 == [r.S EXCEPT !.url.mount = NULL]
             IN  IF HasParent(S2.url.path)
                 THEN LET S3 == [S2 EXCEPT !.url.tmp_mount = new_mountpoint(S2)]
                      IN  UNION {
                            IF q.ret # ESUCCESS
                            THEN umd_after([q.S EXCEPT !.url.tmp_mount = NULL],
                                           NULL, TRUE, dir, test, conf)
                            ELSE umd_after(q.S, "tmp_sub", FALSE, dir, test, conf)
                            : q \in net_mount_nfs(S3, S3.url.tmp_mount, "nfs_parent") }
                 ELSE umd_after(S2, NULL, TRUE, dir, test, conf)
        ELSE IF r.ret = ESUCCESS
        THEN umd_after(r.S, "mount", FALSE, dir, test, conf)
        ELSE umd_after(r.S, NULL, TRUE, dir, test, conf)
        : r \in net_mount_nfs(S1, S1.url.mount, "nfs_path") }

\* smb: the share, at a temporary mountpoint if a sub-path is asked for
umd_smb(S, dir, test, conf) ==
  LET S1 == IF S.url.path # "/"
            THEN [S EXCEPT !.url.tmp_mount = new_mountpoint(S)]
            ELSE [S EXCEPT !.url.mount = DirOrNew(S, dir)]
      s  == IF S.url.path # "/" THEN S1.url.tmp_mount ELSE S1.url.mount
  IN  UNION {
        IF r.ret # 0
        THEN umd_after([r.S EXCEPT !.url.tmp_mount = NULL, !.url.mount = NULL],
                       NULL, TRUE, dir, test, conf)
        ELSE umd_after(r.S, IF r.S.url.mount # NULL THEN "mount" ELSE "tmp_sub",
                       FALSE, dir, test, conf)
        : r \in net_mount_smb(S1, s) }

umd_network(S, dir, test, conf) ==
  CASE S.url.scheme = "nfs" -> umd_nfs(S, dir, test, conf)
    [] S.url.scheme = "smb" -> umd_smb(S, dir, test, conf)
    [] S.url.scheme \in { "http", "ftp" } -> umd_after(S, NULL, FALSE, dir, test, conf)
    [] OTHER -> umd_after(S, NULL, TRUE, dir, test, conf)

\* local device: the device is always what is classified, no temporary mount
umd_local_no_tmp(S, dir, test, conf) ==
  umd_after(S, IF S.url.scheme = "file" THEN "url_path" ELSE "device",
            FALSE, dir, test, conf)

\* local device: the whole device at a temporary mountpoint if a sub-path is asked for
umd_local(S, dir, test, conf) ==
  IF S.url.scheme # "file" /\ S.url.path # "/"
  THEN LET S1 == [S EXCEPT !.url.tmp_mount = new_mountpoint(S)]
       IN  UNION {
             IF r.ret # 0
             THEN { Rec([r.S EXCEPT !.url.tmp_mount = NULL], 0) }
             ELSE umd_after(r.S, "tmp_sub", FALSE, dir, test, conf)
             : r \in util_mount_ro(S1, "device", S1.url.tmp_mount) }
  ELSE umd_after(S, IF S.url.scheme = "file" THEN "url_path" ELSE "device",
                 FALSE, dir, test, conf)

\* after the device is set up
umd_mount(S, dir, test, conf) ==
  IF ~S.url.is.network
  THEN umd_local(S, dir, test, conf)
  ELSE umd_network(S, dir, test, conf)

\* url_mount_disk relying on url_umount to forget the previous mounts
url_mount_disk_no_clear(S, dir, test, conf) ==
  IF \/ S.url.scheme = "none"
     \/ S.url.path = NULL
     \/ (S.url.used.device = NULL /\ S.url.scheme # "file")
  THEN { Rec(S, 0) }
  ELSE UNION {
         UNION { IF r.ret = 0 THEN { Rec(r.S, 0) }
                 ELSE umd_mount(r.S, dir, test, conf)
                 : r \in url_setup_device(Su) }
         : Su \in url_umount(S) }

url_mount_disk(S, dir, test, conf) ==
  IF \/ S.url.scheme = "none"
     \/ S.url.path = NULL
     \/ (S.url.used.device = NULL /\ S.url.scheme # "file")
  THEN { Rec(S, 0) }
  ELSE UNION {
         UNION { IF r.ret = 0 THEN { Rec(r.S, 0) }
                 ELSE umd_mount(r.S, dir, test, conf)
                 : r \in url_setup_device(
                           [Su EXCEPT !.url.tmp_mount = NULL, !.url.mount = NULL]) }
         : Su \in url_umount(S) }

(***************************************************************************)
(* url_read_file(url, dir, src, dst, label, flags) as a whole.             *)
(* Returns 0: ok, 1: failed.                                               *)
(***************************************************************************)
\* without src the file to read is the last part of the Url's path (nfs) or
\* the whole path, and the Url is left with the rest
urf_src(u, src) ==
  IF src # NULL THEN [ok |-> TRUE, path |-> u.path, src |-> src]
  ELSE IF u.scheme = "nfs"
  THEN LET buf == PathChars(u.path)
           I == { i \in 1..Len(buf) : buf[i] = "/" }
       IN  IF I = {} THEN [ok |-> FALSE, path |-> u.path, src |-> NULL]
           ELSE LET s == CHOOSE i \in I : \A j \in I : j <= i
                IN  [ok |-> TRUE, path |-> PathStr(SubSeq(buf, 1, s - 1)),
                     src |-> PathStr(SubSeq(buf, s + 1, Len(buf)))]
  ELSE [ok |-> TRUE, path |-> IF u.is.mountable THEN "/" ELSE "", src |-> u.path]

\* url_mount(url, dir, test_and_copy) for a Url whose device an earlier
\* url_mount has resolved: 0 ok, 1 failed
urf_mount(S, dir, conf, nosha1) ==
  IF S.url.scheme = "none" \/ ~conf.hd_data THEN { Rec(S, 1) }
  ELSE { Rec(r.S, IF r.ret # 0 THEN 0 ELSE 1)
         : r \in url_mount_disk(S, dir,
                                IF nosha1 THEN "test_and_copy_nosha1" ELSE "test_and_copy",
                                conf) }

\* dst missing or its directories not created; no src on a mounted Url; else
\* the transfer from the mount, through url_mount, or directly. test_and_copy
\* appends src to url->path only to print the Url of the transfer and puts
\* the old path back.
urf(S, conf, dir, src, dst, nosha1) ==
  IF dst = NULL THEN { Rec(S, 1) }
  ELSE { Rec(S, 1) }
       \cup ( IF src = NULL /\ S.url.mount # NULL THEN { Rec(S, 1) }
              ELSE LET p  == urf_src(S.url, src)
                       S1 == [S EXCEPT !.url.path = p.path]
                   IN  IF ~p.ok THEN { Rec(S, 1) }
                       ELSE IF S1.url.mount # NULL
                       THEN url_read_file(S1, conf, p.src, nosha1)
                       ELSE IF S1.url.is.mountable /\ S1.url.scheme # "file"
                       THEN urf_mount(S1, dir, conf, nosha1)
                       ELSE url_read_file(S1, conf, p.src, nosha1) )

(***************************************************************************)
(* The hardware list (config.hd_data) and the Urls url_set() builds.       *)
(***************************************************************************)
HdEntry(dev, names, hwaddr, class, child_ids, model, wlan) ==
  [unix_dev_name |-> dev, unix_dev_names |-> names, hwaddr |-> hwaddr,
   class |-> class, child_ids |-> child_ids, model |-> model,
   unique_id |-> "id:" \o dev, wlan |-> wlan]

\* block devices in the order hd_list() reports them
BlockDevs ==
  << HdEntry("/dev/sda", {}, NULL, "disk", TRUE, "Disk", FALSE),
     HdEntry("/dev/sda1", { "/dev/disk/by-label/REPO" }, NULL, "disk", FALSE,
             "Partition", FALSE),
     HdEntry("/dev/sdb1", {}, NULL, "disk", FALSE, "Partition", FALSE),
     HdEntry("/dev/sr0", {}, NULL, "cdrom", FALSE, "DVD-ROM", FALSE),
     HdEntry("/dev/fd0", {}, NULL, "floppy", FALSE, "Floppy", FALSE),
     HdEntry(NULL, {}, NULL, "disk", FALSE, "Card reader", FALSE) >>

\* network interfaces in the order hd_list() reports them
NetDevs ==
  << HdEntry("eth0", {}, "00:11:22:33:44:55", "network", FALSE, "Ethernet", FALSE),
     HdEntry("wlan0", {}, "66:77:88:99:aa:bb", "network", FALSE, "WLAN", TRUE),
     HdEntry("lo", {}, NULL, "network", FALSE, "Loopback", FALSE) >>

\* the runs of at most n consecutive entries of D
HdLists(D, n) ==
  { SubSeq(D, p[1], p[2]) :
      p \in { q \in (1..Len(D)) \X (0..Len(D)) : q[2] - q[1] < n } }

DevNames == { "sda", "sda1", "sdb", "sdb1", "sr0", "fd0" }

\* short_dev(): the name without a leading "/dev/"
short_dev(name) ==
  IF \E s \in DevNames \cup { "disk/by-label/REPO" } : name = "/dev/" \o s
  THEN CHOOSE s \in DevNames \cup { "disk/by-label/REPO" } : name = "/dev/" \o s
  ELSE name

\* long_dev(): the name with a leading "/dev/"
long_dev(name) ==
  IF \E s \in DevNames : name = "/dev/" \o s THEN name ELSE "/dev/" \o name

\* match_netdevice(): the key names the device or is its hardware address
match_netdevice(name, hwaddr, key) ==
  key = name \/ (hwaddr # NULL /\ key = hwaddr)

\* the capability table of url_set()
Mountable == { "file", "nfs", "smb", "cdrom", "floppy", "hd", "disk", "dvd", "exec" }
Network == { "slp", "nfs", "ftp", "smb", "http", "tftp" }
Cdrom == { "cdrom", "dvd" }

NoDevice ==
  [device |-> NULL, hwaddr |-> NULL, model |-> NULL, unique_id |-> NULL, server |-> NULL]

\* the Url url_set() returns for a scheme, path, device hint
UrlOf(scheme, path, device, download) ==
  [scheme |-> scheme, path |-> path, device |-> device, download |-> download,
   server |-> IF scheme \in Network THEN "srv" ELSE NULL,
   share |-> IF scheme = "smb" THEN "share" ELSE NULL,
   user |-> IF scheme = "smb" THEN "user" ELSE NULL,
   password |-> NULL, domain |-> NULL,
   used |-> NoDevice, mount |-> NULL, tmp_mount |-> NULL,
   is |-> [mountable |-> scheme \in Mountable, network |-> scheme \in Network,
           cdrom |-> scheme \in Cdrom, wlan |-> FALSE, file |-> FALSE]]

Urls ==
  { UrlOf("disk", "/a/b", d, FALSE) : d \in { NULL, "sdb" } }
  \cup { UrlOf("disk", "/", "sda1", FALSE), UrlOf("cdrom", "/a/b", NULL, FALSE) }
  \cup { UrlOf("hd", "/", NULL, FALSE), UrlOf("disk", "/", "disk/by-label/REPO", FALSE) }
  \cup { UrlOf("nfs", "/a/b", "eth0", FALSE),
         UrlOf("nfs", "/x", "00:11:22:33:44:55", FALSE),
         UrlOf("nfs", "/a/b/", "eth0", FALSE) }
  \cup { UrlOf("smb", "/a/b", "eth0", FALSE), UrlOf("smb", "/", NULL, FALSE) }
  \cup { UrlOf(s, "", NULL, FALSE) : s \in { "http", "slp" } }
  \cup { UrlOf("file", "/a/b", NULL, dl) : dl \in BOOLEAN }
  \cup { UrlOf("none", NULL, NULL, FALSE) }

\* the hardware lists a Url is resolved against
HwFor(u) ==
  IF u.is.network THEN HdLists(NetDevs, MaxHd)
  ELSE IF u.scheme \in { "file", "none" } THEN { << >> }
  ELSE HdLists(BlockDevs, MaxHd)

\* the hardware classes an entry belongs to
hd_is_hw_class(hd, item) ==
  CASE item = "hw_block" -> hd.class \in { "disk", "cdrom", "floppy" }
    [] item = "hw_cdrom" -> hd.class = "cdrom"
    [] item = "hw_floppy" -> hd.class = "floppy"
    [] item = "hw_network_ctrl" -> hd.class = "network"

\* hd_list(config.hd_data, hw_item, 0, NULL)
hd_list(list, item) == SelectSeq(list, LAMBDA hd : hd_is_hw_class(hd, item))

(***************************************************************************)
(* url_mount: candidate matching.                                          *)
(***************************************************************************)
\* the hardware class url_mount enumerates for a Url
hw_item(u) ==
  IF ~u.is.network
  THEN CASE u.scheme = "cdrom" -> "hw_cdrom"
         [] u.scheme = "floppy" -> "hw_floppy"
         [] OTHER -> "hw_block"
  ELSE "hw_network_ctrl"

\* the entries the loop passes over before matching
Excluded(u, h) ==
  \/ /\ u.scheme \in { "hd", "disk" }
     /\ \/ hd_is_hw_class(h, "hw_floppy")
        \/ hd_is_hw_class(h, "hw_cdrom")
        \/ h.child_ids
  \/ h.unix_dev_name = NULL

\* the device hint against the entry's first name and hardware address alone
MatchedFirstName(u, h) ==
  u.device # NULL => match_netdevice(short_dev(h.unix_dev_name), h.hwaddr, u.device)

\* the device hint against the entry's names and hardware address
Matched(u, h) ==
  IF u.device # NULL
  THEN \/ match_netdevice(short_dev(h.unix_dev_name), h.hwaddr, u.device)
       \/ \E n \in h.unix_dev_names : match_netdevice(short_dev(n), NULL, u.device)
  ELSE TRUE

\* the entry's identity recorded onto url.used
UseDevice(u, h) ==
  [u EXCEPT !.used = [device |-> h.unix_dev_name, hwaddr |-> h.hwaddr,
                      unique_id |-> h.unique_id,
                      model |-> IF h.model = "Partition"
                                THEN h.model \o ": blk_ident"
                                ELSE h.model,
                      server |-> u.used.server],
            !.is.wlan = h.wlan]

\* the loop stopping at any accepted attempt
LoopBreaksOnAccept(ok) == ok # 0

\* the loop stops at an attempt that returned 1
LoopBreaks(ok) == ok = 1

\* the fallback taken whenever nothing was accepted
FallbackTakenUnlessFound(u, e, f) == f = 0 /\ u.device # NULL

\* the literal-device fallback is taken
FallbackTaken(u, e, f) ==
  e = 0 /\ f = 0 /\ u.used.device = NULL /\ u.device # NULL

\* url_mount's return value
MountResult(f, e) == IF f # 0 THEN 0 ELSE e

(***************************************************************************)
(* The Transfer Pipeline: byte strings, the digest and the sniffed header. *)
(* A byte string is a sequence of numbers 0..255.                          *)
(***************************************************************************)
\* url_data->buf.max as url_data_new() sets it
BufMax == 256
\* bytes needed before the header is looked at
SniffMin == 11
\* sizeof(struct cramfs_super_block), and where its name[16] field lies
CramfsSbSize == 76
CramfsNameOff == 48
CramfsNameLen == 16
\* where the original name of a gzip member starts
GzipNameOff == 10

\* bytes of one block of the digest
Sha1Block == 64

\* sha1_init_ctx(): nothing folded in, no bytes pending
sha1_init_ctx == [h |-> 1, n |-> 0, pending |-> << >>]

\* the bytes of a block from position i on folded into the state, in order
\* (h is never negative: the test has TLC evaluate it at every byte)
RECURSIVE sha1_fold(_, _, _)
sha1_fold(block, i, h) ==
  IF h >= 0 /\ i <= Len(block)
  THEN sha1_fold(block, i + 1, (h * 31 + block[i] + 1) % 65521)
  ELSE h

sha1_process_block(block, h) == sha1_fold(block, 1, h)

\* the full blocks of bytes folded in; what is left stays pending
RECURSIVE sha1_process_blocks(_, _)
sha1_process_blocks(bytes, ctx) ==
  IF Len(bytes) < Sha1Block THEN [ctx EXCEPT !.pending = bytes]
  ELSE sha1_process_blocks(
         SubSeq(bytes, Sha1Block + 1, Len(bytes)),
         [ctx EXCEPT !.h = sha1_process_block(SubSeq(bytes, 1, Sha1Block), @),
                     !.n = @ + Sha1Block])

\* sha1_process_bytes(buffer, len, ctx)
sha1_process_bytes(buffer, ctx) == sha1_process_blocks(ctx.pending \o buffer, ctx)

\* sha1_finish_ctx(): the pending bytes and the total length are folded in
sha1_finish_ctx(ctx) ==
  (sha1_process_block(ctx.pending, ctx.h) * 251 + ctx.n + Len(ctx.pending)) % 65521

\* isspace()
IsSpace(c) == c \in { 32, 9, 10, 11, 12, 13 }

IsDigit(c) == c \in 48..57

\* first position from i on that holds (ws) or does not hold (~ws) white space
RECURSIVE Skip(_, _, _)
Skip(s, i, ws) ==
  IF i <= Len(s) /\ IsSpace(s[i]) = ws THEN Skip(s, i + 1, ws) ELSE i

\* the decimal number starting at position i
RECURSIVE ScanDigits(_, _, _)
ScanDigits(s, i, acc) ==
  IF i <= Len(s) /\ IsDigit(s[i]) /\ acc < 100000
  THEN ScanDigits(s, i + 1, acc * 10 + (s[i] - 48))
  ELSE acc

\* sscanf(orig_name, "%*s %d", &i): the number converted, 0 if none was
ScanImageSize(s) ==
  LET w == Skip(s, 1, TRUE)        \* %*s skips leading white space
      e == Skip(s, w, FALSE)       \* and then a word
      d == Skip(s, e, TRUE)        \* " " skips white space
      neg == d <= Len(s) /\ s[d] = 45
      g == IF d <= Len(s) /\ s[d] \in { 43, 45 } THEN d + 1 ELSE d
  IN  IF e = w \/ g > Len(s) \/ ~IsDigit(s[g]) THEN 0
      ELSE IF neg THEN 0 - ScanDigits(s, g, 0)
      ELSE ScanDigits(s, g, 0)

\* strnlen(s + off, max): the bytes before the first NUL, at most max
RECURSIVE strnlen(_, _, _)
strnlen(data, off, max) ==
  IF max = 0 \/ data[off + 1] = 0 THEN 0
  ELSE 1 + strnlen(data, off + 1, max - 1)

\* the header starts with the gzip magic
IsGzip(data) == data[1] = 31 /\ data[2] = 139

\* the header starts with CRAMFS_SUPER_MAGIC in either byte order
IsCramfs(data) ==
  SubSeq(data, 1, 4) \in { << 69, 61, 205, 40 >>, << 40, 205, 61, 69 >> }

\* the name field of the cramfs super block, up to its first NUL
CramfsName(data) ==
  SubSeq(data, CramfsNameOff + 1,
         CramfsNameOff + strnlen(data, CramfsNameOff, CramfsNameLen))

(***************************************************************************)
(* url_write_cb: the write callback of the transfer.  d is the url_data,   *)
(* buffer the bytes delivered (none in url_read's own calls).              *)
(***************************************************************************)
Min(a, b) == IF a < b THEN a ELSE b

\* a pointer that is NULL, or points to v
None == << >>
Some(v) == << v >>

\* the sniff buffer is full, or url_read asked to flush it
wcb_full(d) == d.buf_len = d.buf_max \/ d.flush

\* bit 3 of the gzip flags: an original file name follows the header
HasGzipName(data) == (data[4] \div 8) % 2 = 1

\* the original name found in the sniffed header, and what it says
wcb_header(d) ==
  IF d.unzip /\ IsGzip(d.buf_data)
  THEN LET i == strnlen(d.buf_data, GzipNameOff, d.buf_len - GzipNameOff)
       IN  IF HasGzipName(d.buf_data) /\ i < d.buf_len - GzipNameOff
           THEN [d EXCEPT !.gzip = TRUE,
                          !.orig_name = Some(SubSeq(d.buf_data, GzipNameOff + 1,
                                                    GzipNameOff + i))]
           ELSE [d EXCEPT !.gzip = TRUE]
  ELSE IF d.buf_len > CramfsSbSize /\ IsCramfs(d.buf_data)
  THEN [d EXCEPT !.cramfs = TRUE, !.orig_name = Some(CramfsName(d.buf_data))]
  ELSE d

\* the header looked at only when the sniff buffer has filled
wcb_sniff_full_only(d) ==
  IF d.buf_len = d.buf_max /\ d.buf_len >= SniffMin
  THEN LET d1 == wcb_header(d)
           i  == IF d1.orig_name = None THEN 0 ELSE ScanImageSize(d1.orig_name[1])
       IN  IF i > 0 THEN [d1 EXCEPT !.image_size = i] ELSE d1
  ELSE d

wcb_sniff(d) ==
  IF wcb_full(d) /\ d.buf_len >= SniffMin
  THEN LET d1 == wcb_header(d)
           i  == IF d1.orig_name = None THEN 0 ELSE ScanImageSize(d1.orig_name[1])
       IN  IF i > 0 THEN [d1 EXCEPT !.image_size = i] ELSE d1
  ELSE d

\* error messages, as the words they are made of
MsgProxy == << "invalid", "proxy", "address:", "name" >>
MsgOpen == << "open:", "file_name:", "strerror" >>
MsgMkstemp == << "mkstemp:", "strerror" >>
MsgGzip == << "gzip:", "command", "terminated" >>
MsgCurl == << "curl", "error" >>
NoMsg == << >>

\* (the output opened without a total for the decompressed bytes)
wcb_open_no_total(d) ==
  IF ~wcb_full(d) \/ d.file_opened THEN { d }
  ELSE LET d1 == [d EXCEPT !.file_opened = TRUE]
       IN  IF d1.gzip
           THEN LET d2 == [d1 EXCEPT !.tmp_file = "/tmp/foo_XXXXXX"]
                    d3 == [d2 EXCEPT !.tmp_exists = TRUE]
                IN  { [d2 EXCEPT !.err = 1, !.err_buf = MsgMkstemp] }
                    \cup { [d3 EXCEPT !.err = 101, !.err_buf = MsgOpen] }
                    \cup { [d3 EXCEPT !.pipe_fd = 3, !.f = p] : p \in { "pipe", NULL } }
           ELSE { [d1 EXCEPT !.f = "file"],
                  [d1 EXCEPT !.err = 101, !.err_buf = MsgOpen] }

\* the output is opened with the first write: the file, or a pipe to "gzip -dc"
\* whose stderr goes to a temporary file made by mkstemp()
wcb_open(d) ==
  IF ~wcb_full(d) \/ d.file_opened THEN { d }
  ELSE LET d1 == [d EXCEPT !.file_opened = TRUE]
       IN  IF d1.gzip
           THEN LET d2 == [d1 EXCEPT !.tmp_file = "/tmp/foo_XXXXXX"]
                    d3 == [d2 EXCEPT !.tmp_exists = TRUE]
                IN  { [d2 EXCEPT !.err = 1, !.err_buf = MsgMkstemp] }
                    \cup { [d3 EXCEPT !.err = 101, !.err_buf = MsgOpen] }
                    \cup { [d3 EXCEPT !.pipe_fd = 3, !.f = p,
                                      !.zp_total = d3.image_size * 1024]
                           : p \in { "pipe", NULL } }
           ELSE { [d1 EXCEPT !.f = "file"],
                  [d1 EXCEPT !.err = 101, !.err_buf = MsgOpen] }

\* the write that drops the rest of the chunk that filled the sniff buffer
wcb_write_buffer_only(d, rest) ==
  IF ~wcb_full(d) THEN d
  ELSE LET d1 == IF d.f # NULL /\ d.buf_len > 0
                 THEN [d EXCEPT !.out = @ \o d.buf_data, !.p_now = @ + d.buf_len]
                 ELSE d
           d2 == IF d1.f # NULL /\ Len(rest) > 0 /\ d.buf_max = 0
                 THEN [d1 EXCEPT !.out = @ \o rest, !.p_now = @ + Len(rest)]
                 ELSE d1
       IN  IF d2.buf_max # 0
           THEN [d2 EXCEPT !.buf_len = 0, !.buf_max = 0, !.buf_data = << >>]
           ELSE d2

\* the buffered bytes and the rest of the chunk are written, the buffer released
wcb_write(d, rest) ==
  IF ~wcb_full(d) THEN d
  ELSE LET d1 == IF d.f # NULL /\ d.buf_len > 0
                 THEN [d EXCEPT !.out = @ \o d.buf_data, !.p_now = @ + d.buf_len]
                 ELSE d
           d2 == IF d1.f # NULL /\ Len(rest) > 0
                 THEN [d1 EXCEPT !.out = @ \o rest, !.p_now = @ + Len(rest)]
                 ELSE d1
       IN  IF d2.buf_max # 0
           THEN [d2 EXCEPT !.buf_len = 0, !.buf_max = 0, !.buf_data = << >>]
           ELSE d2

\* lseek(pipe_fd, 0, SEEK_CUR): how much the decompressor has written so far
\* of what it was given, which can be more than the header announced; -1
\* leaves zp_now alone
wcb_offset(d) ==
  IF d.pipe_fd >= 0 /\ d.p_now > 0
  THEN { d }
       \cup { [d EXCEPT !.zp_now = off]
              : off \in { o \in { d.zp_total \div 2, d.zp_total, d.zp_total + 1024 }
                            : o >= d.zp_now } }
  ELSE { d }

\* url_progress, stage 1: the percentage or the kB count shown
url_progress_update(d) ==
  LET p  == IF d.p_total # 0 THEN (100 * d.p_now) \div d.p_total
            ELSE IF d.zp_total # 0 THEN (100 * d.zp_now) \div d.zp_total
            ELSE -1
      pct == IF p > 100 THEN 100 ELSE p
      kb == (IF d.zp_now # 0 THEN d.zp_now ELSE d.p_now) \div 1024
      d1 == [d EXCEPT !.label_shown = TRUE]
  IN  IF pct >= 0
      THEN (IF pct # d.percent THEN [d1 EXCEPT !.percent = pct] ELSE d1)
      ELSE (IF kb > d.percent + 100 \/ d.flush THEN [d1 EXCEPT !.percent = kb] ELSE d1)

\* url_data->progress(url_data, stage): url_progress, or a caller's own
\* indicator that may ask to abort
progress(d, stage) ==
  CASE d.progress = "url_progress" ->
         { Rec(IF stage = 1 THEN url_progress_update(d) ELSE d, 0) }
    [] d.progress = "custom" -> { Rec(d, 0), Rec(d, 1) }
    [] OTHER -> { Rec(d, 0) }

\* the update of the indicator; `vetoed' remembers that the indicator asked to
\* abort a transfer that had met no error
wcb_progress(d) ==
  IF (d.p_total # 0 \/ d.zp_total # 0) /\ d.progress # NULL
  THEN { IF r.ret # 0 /\ r.S.err = 0
         THEN [r.S EXCEPT !.err = 102, !.vetoed = TRUE]
         ELSE r.S
         : r \in progress(d, 1) }
  ELSE { d }

\* url_write_cb with the digest taken of what is left after buffering
url_write_cb_hash_rest(d, buffer) ==
  LET z1 == Len(buffer)
      z2 == IF d.buf_len < d.buf_max /\ z1 > 0
            THEN Min(d.buf_max - d.buf_len, z1) ELSE 0
      d2 == [d EXCEPT !.buf_data = @ \o SubSeq(buffer, 1, z2), !.buf_len = @ + z2]
      rest == SubSeq(buffer, z2 + 1, z1)
      d3 == [d2 EXCEPT !.sha1_ctx = sha1_process_bytes(rest, @)]
  IN  UNION { UNION { wcb_progress(o) : o \in wcb_offset(wcb_write(e, rest)) }
              : e \in wcb_open(wcb_sniff(d3)) }

\* the url_data after the call; the call returns 0 if err is set, else the
\* number of bytes taken
url_write_cb(d, buffer) ==
  LET z1 == Len(buffer)
      d1 == IF z1 > 0
            THEN [d EXCEPT !.sha1_ctx = sha1_process_bytes(buffer, @)]
            ELSE d
      z2 == IF d1.buf_len < d1.buf_max /\ z1 > 0
            THEN Min(d1.buf_max - d1.buf_len, z1) ELSE 0
      d2 == [d1 EXCEPT !.buf_data = @ \o SubSeq(buffer, 1, z2), !.buf_len = @ + z2]
      rest == SubSeq(buffer, z2 + 1, z1)
  IN  UNION { UNION { wcb_progress(o) : o \in wcb_offset(wcb_write(e, rest)) }
              : e \in wcb_open(wcb_sniff(d2)) }

\* url_data_new(), and what the caller of url_read sets
url_data_new(unzip, prog) ==
  [unzip |-> unzip, progress |-> prog,
   buf_data |-> << >>, buf_len |-> 0, buf_max |-> BufMax, flush |-> FALSE,
   gzip |-> FALSE, cramfs |-> FALSE, orig_name |-> None, image_size |-> 0,
   file_opened |-> FALSE, f |-> NULL, pipe_fd |-> -1, tmp_file |-> NULL,
   err |-> 0, p_now |-> 0, p_total |-> 0, zp_now |-> 0, zp_total |-> 0,
   percent |-> -1, label_shown |-> FALSE, vetoed |-> FALSE,
   err_buf |-> NoMsg, curl_err_buf |-> NoMsg, tmp_exists |-> FALSE,
   gz_exit |-> -1, gz_stderr |-> NoMsg,
   sha1_ctx |-> sha1_init_ctx, sha1 |-> None, out |-> << >>]

(***************************************************************************)
(* What a server can send.                                                 *)
(***************************************************************************)
\* bytes a transfer can have more than the sniff buffer holds
MaxExtra == 44

\* "x 2" and "c 3": an original name that gives the image size in kB
GzipHeader == << 31, 139, 8, 8, 0, 0, 0, 0, 0, 3, 120, 32, 50, 0 >>
CramfsHeader ==
  << 69, 61, 205, 40 >> \o [i \in 1..(CramfsNameOff - 4) |-> 0] \o << 99, 32, 51, 0 >>
\* the same super block written by a host of the other byte order
CramfsHeaderBig == << 40, 205, 61, 69 >> \o SubSeq(CramfsHeader, 5, Len(CramfsHeader))

\* a stream of n bytes that starts with (a part of) the given header
Content(header, n) ==
  [i \in 1..n |-> IF i <= Len(header) THEN header[i] ELSE (i * 7 + 3) % 251]

Contents ==
  { Content(h, n) :
      h \in { << >>, GzipHeader, CramfsHeader, CramfsHeaderBig },
      n \in { 0, 5, SniffMin, CramfsSbSize + 1, BufMax, BufMax + MaxExtra } }

\* the chunk sizes the transfer library delivers
ChunkSizes == { SniffMin, BufMax - SniffMin, BufMax }

(***************************************************************************)
(* State.                                                                  *)
(***************************************************************************)
VARIABLES
  url,        \* the Url being resolved
  mounts,     \* the OS mount table: mounts stacked on each mountpoint
  cfg,        \* config.net.*, config.url.instsys*->mount, config.*_failed
  log,        \* the OS mount/umount calls of the call that just returned
  nfail,      \* util_umount() calls that failed on an active mount so far
  conf,       \* configuration the resolver only reads
  hw,         \* config.hd_data: the hardware list
  pc,         \* where url_mount stands
  args,       \* url_mount's dir and test_func
  hdi,        \* url_mount's position in hd_list()
  found,      \* url_mount's found
  err,        \* url_mount's err
  attempts,   \* the url_mount_disk calls of the last url_mount, with results
  ret,        \* the call that returned last, and its value
  xf,         \* the transfer (url_data) in flight
  pr          \* the string url_set is parsing, and what became of it

vars == << url, mounts, cfg, log, nfail, conf, hw, pc, args, hdi, found, err,
           attempts, ret, xf, pr >>

mountVars == << url, mounts, cfg, log, nfail, conf, hw, pc, args, hdi, found, err,
                attempts, ret >>

St == [url |-> url, mounts |-> mounts, cfg |-> cfg, log |-> << >>, nfail |-> nfail]

SetSt(S) ==
  /\ url' = S.url
  /\ mounts' = S.mounts
  /\ cfg' = S.cfg
  /\ log' = S.log
  /\ nfail' = S.nfail

NoArgs == [dir |-> NULL, test |-> NULL]

Returned(fn, val) == [fn |-> fn, val |-> val]

\* temporary mountpoints one url_mount_disk call may need
NeedMps(test) == IF test = "test_is_repo" THEN 3 ELSE 2

HasMps(test) ==
  /\ Cardinality(FreeMps(St)) >= NeedMps(test)
  /\ test = "test_is_repo" => mounts["instsys"] < MaxInstsys

\* the candidates url_mount walks
Candidates == hd_list(hw, hw_item(url))

Tests == IF conf.repo THEN { "test_is_repo" } ELSE { NULL, "caller" }

\* the target directory the callers of a run pass: none, or their mountpoint
Dirs == { conf.dir }

(***************************************************************************)
(* Actions of the Mount Orchestrator.                                      *)
(***************************************************************************)
\* a caller unmounts the Url
UrlUmount ==
  /\ pc = "idle"
  /\ \E S \in url_umount(St) : SetSt(S)
  /\ ret' = Returned("url_umount", 0)
  /\ attempts' = << >>
  /\ UNCHANGED << conf, hw, pc, args, hdi, found, err, xf, pr >>

\* url_mount returns 1 at once: no scheme, or the hardware was never probed
Refused == url.scheme = "none" \/ ~conf.hd_data

UrlMountReject ==
  /\ pc = "idle"
  /\ Refused
  /\ ret' = Returned("url_mount", 1)
  /\ attempts' = << >>
  /\ log' = << >>
  /\ UNCHANGED << url, mounts, cfg, nfail, conf, hw, pc, args, hdi, found, err, xf, pr >>

\* url_mount: the file scheme or a resolved device goes straight to url_mount_disk
UrlMountDirect(dir, test) ==
  /\ pc = "idle"
  /\ ~Refused
  /\ url.scheme = "file" \/ url.used.device # NULL
  /\ HasMps(test)
  /\ \E r \in url_mount_disk(St, dir, test, conf) :
       /\ SetSt(r.S)
       /\ ret' = Returned("url_mount_disk", r.ret)
       /\ attempts' = << [by |-> "used", hd |-> 0, device |-> url.used.device,
                         ok |-> r.ret] >>
  /\ pc' = "direct"
  /\ args' = [dir |-> dir, test |-> test]
  /\ UNCHANGED << conf, hw, hdi, found, err, xf, pr >>

UrlMountDirectReturn ==
  /\ pc = "direct"
  /\ ret' = Returned("url_mount", IF ret.val # 0 THEN 0 ELSE 1)
  /\ pc' = "idle"
  /\ args' = NoArgs
  /\ log' = << >>
  /\ UNCHANGED << url, mounts, cfg, nfail, conf, hw, hdi, found, err, attempts, xf, pr >>

\* url_mount: no resolved device, the hardware list is walked
UrlMountEnumerate(dir, test) ==
  /\ pc = "idle"
  /\ ~Refused
  /\ ~(url.scheme = "file" \/ url.used.device # NULL)
  /\ pc' = "loop"
  /\ args' = [dir |-> dir, test |-> test]
  /\ hdi' = 1
  /\ found' = 0
  /\ err' = 0
  /\ attempts' = << >>
  /\ ret' = Returned("none", 0)
  /\ log' = << >>
  /\ UNCHANGED << url, mounts, cfg, nfail, conf, hw, xf, pr >>

\* an entry that is excluded or does not match: continue
LoopSkip ==
  /\ pc = "loop"
  /\ hdi <= Len(Candidates)
  /\ Excluded(url, Candidates[hdi]) \/ ~Matched(url, Candidates[hdi])
  /\ hdi' = hdi + 1
  /\ ret' = Returned("none", 0)
  /\ log' = << >>
  /\ UNCHANGED << url, mounts, cfg, nfail, conf, hw, pc, args, found, err, attempts, xf, pr >>

\* a matching entry: its identity is recorded and url_mount_disk tried
LoopAttempt ==
  /\ pc = "loop"
  /\ hdi <= Len(Candidates)
  /\ ~Excluded(url, Candidates[hdi])
  /\ Matched(url, Candidates[hdi])
  /\ HasMps(args.test)
  /\ LET h == Candidates[hdi]
         S1 == [St EXCEPT !.url = UseDevice(url, h)]
     IN  \E r \in url_mount_disk(S1, args.dir, args.test, conf) :
           /\ SetSt(IF r.ret # 0 /\ hd_is_hw_class(h, "hw_cdrom")
                    THEN [r.S EXCEPT !.url.is.cdrom = TRUE]
                    ELSE r.S)
           /\ ret' = Returned("url_mount_disk", r.ret)
           /\ attempts' = Append(attempts,
                [by |-> "hd", hd |-> hdi, device |-> h.unix_dev_name, ok |-> r.ret])
           /\ found' = IF r.ret # 0 THEN found + 1 ELSE found
           /\ err' = IF r.ret # 0 THEN err ELSE 1
  /\ pc' = "attempted"
  /\ UNCHANGED << conf, hw, args, hdi, xf, pr >>

\* url_mount looks at what the attempt returned: break, or the next entry
LoopNext ==
  /\ pc = "attempted"
  /\ IF ret.val # 0 /\ LoopBreaks(ret.val)
     THEN pc' = "after_loop" /\ hdi' = hdi
     ELSE pc' = "loop" /\ hdi' = hdi + 1
  /\ ret' = Returned("none", 0)
  /\ log' = << >>
  /\ UNCHANGED << url, mounts, cfg, nfail, conf, hw, args, found, err, attempts, xf, pr >>

\* the list is exhausted
LoopEnd ==
  /\ pc = "loop"
  /\ hdi > Len(Candidates)
  /\ pc' = "after_loop"
  /\ ret' = Returned("none", 0)
  /\ log' = << >>
  /\ UNCHANGED << url, mounts, cfg, nfail, conf, hw, args, hdi, found, err, attempts, xf, pr >>

\* no entry was tried but the Url has a device hint: the literal device
Fallback ==
  /\ pc = "after_loop"
  /\ FallbackTaken(url, err, found)
  /\ HasMps(args.test)
  /\ LET S1 == [St EXCEPT !.url.used = [NoDevice EXCEPT !.device = long_dev(url.device),
                                                     !.server = url.used.server]]
     IN  \E r \in url_mount_disk(S1, args.dir, args.test, conf) :
           /\ SetSt(r.S)
           /\ ret' = Returned("url_mount_disk", r.ret)
           /\ attempts' = Append(attempts,
                [by |-> "device", hd |-> 0, device |-> long_dev(url.device),
                 ok |-> r.ret])
           /\ err' = IF r.ret # 0 THEN 0 ELSE 1
  /\ pc' = "finish"
  /\ UNCHANGED << conf, hw, args, hdi, found, xf, pr >>

NoFallback ==
  /\ pc = "after_loop"
  /\ ~FallbackTaken(url, err, found)
  /\ pc' = "finish"
  /\ ret' = Returned("none", 0)
  /\ log' = << >>
  /\ UNCHANGED << url, mounts, cfg, nfail, conf, hw, args, hdi, found, err, attempts, xf, pr >>

\* url_mount returns: the resolved device is forgotten if err is set
UrlMountReturn ==
  /\ pc = "finish"
  /\ url' = IF err # 0
            THEN [url EXCEPT !.used = [NoDevice EXCEPT !.server = url.used.server]]
            ELSE url
  /\ ret' = Returned("url_mount", MountResult(found, err))
  /\ pc' = "idle"
  /\ args' = NoArgs
  /\ hdi' = 0
  /\ found' = 0
  /\ err' = 0
  /\ log' = << >>
  /\ UNCHANGED << mounts, cfg, nfail, conf, hw, attempts, xf, pr >>

(***************************************************************************)
(* Initial states and specifications.                                      *)
(***************************************************************************)
Conf(dir, hd_data, repo, secure, kexec, rescue, download, instsys2, scheme) ==
  [dir |-> dir, hd_data |-> hd_data, repo |-> repo, secure |-> secure,
   kexec |-> kexec, rescue |-> rescue, download_instsys |-> download,
   get_instsys2 |-> instsys2, instsys_scheme |-> scheme]

\* url_mount called by url_find_instsys, url_read_file or another caller
ConfsMount ==
  { Conf(dir, hd, FALSE, FALSE, FALSE, FALSE, FALSE, FALSE, "none") :
      dir \in { NULL, "dir" }, hd \in BOOLEAN }

\* url_mount called by url_find_repo
ConfsRepo ==
  { c \in { Conf("dir", TRUE, TRUE, s, k, r, d, g, i) :
                s \in BOOLEAN, k \in BOOLEAN, r \in BOOLEAN, d \in BOOLEAN,
                g \in BOOLEAN, i \in { "none", "rel", "nfs" } } :
      /\ c.get_instsys2 => ~c.rescue
      /\ Cardinality({ f \in { "secure", "kexec", "rescue", "download_instsys" } :
                         c[f] }) <= 1 }

XfNone == [phase |-> "none"]

\* no string is being parsed
PrNone == [phase |-> "none"]

InitCfg ==
  [net_configured |-> "nc_none", net_device |-> NULL,
   net_hwaddr |-> NULL, net_cardname |-> NULL, net_unique_id |-> NULL,
   use_dhcp |-> TRUE, test |-> FALSE,
   instsys_mount |-> NULL, instsys2_mount |-> NULL,
   sha1_failed |-> FALSE, sig_failed |-> FALSE]

InitMount(U, C, F) ==
  /\ url \in U
  /\ conf \in C
  /\ hw \in IF conf.hd_data THEN HwFor(url) ELSE { << >> }
  /\ mounts = [m \in AllMps |-> 0]
  /\ cfg = InitCfg
  /\ log = << >>
  /\ nfail = F
  /\ pc = "idle"
  /\ args = NoArgs
  /\ hdi = 0
  /\ found = 0
  /\ err = 0
  /\ attempts = << >>
  /\ ret = Returned("none", 0)

Init == InitMount(Urls, ConfsMount, 0) /\ xf = XfNone /\ pr = PrNone

\* the Urls url_find_repo is tried on
UrlsRepo ==
  { u \in Urls : \/ u.scheme \in { "none", "http" }
                 \/ u.scheme = "disk" /\ u.path = "/a/b" }

\* in these runs no util_umount() call fails
InitRepo == InitMount(UrlsRepo, ConfsRepo, MaxUmountFail) /\ xf = XfNone /\ pr = PrNone

(***************************************************************************)
(* Network Bootstrap alone (SpecSetup): url_setup_device on a Url for which *)
(* url_mount has chosen a hardware entry, or none.                          *)
(***************************************************************************)
UrlSetupDevice ==
  /\ pc = "idle"
  /\ \E u \in { url } \cup { UseDevice(url, hw[i]) : i \in 1..Len(hw) } :
       \E r \in url_setup_device([St EXCEPT !.url = u]) :
         /\ SetSt(r.S)
         /\ ret' = Returned("url_setup_device", r.ret)
  /\ UNCHANGED << conf, hw, pc, args, hdi, found, err, attempts, xf, pr >>

\* the network interfaces with a tunnel device among them
NetDevsSetup ==
  NetDevs \o << HdEntry("sit0", {}, NULL, "network", FALSE, "Tunnel", FALSE) >>

\* config.net.use_dhcp and config.test as the user has set them
CfgsSetup == { [InitCfg EXCEPT !.use_dhcp = d, !.test = t] : d \in BOOLEAN, t \in BOOLEAN }

InitSetup ==
  /\ url \in Urls
  /\ conf \in { c \in ConfsMount : c.hd_data /\ c.dir = NULL }
  /\ hw = IF url.is.network THEN NetDevsSetup ELSE BlockDevs
  /\ mounts = [m \in AllMps |-> 0]
  /\ cfg \in CfgsSetup
  /\ log = << >>
  /\ nfail = 0
  /\ pc = "idle"
  /\ args = NoArgs
  /\ hdi = 0
  /\ found = 0
  /\ err = 0
  /\ attempts = << >>
  /\ ret = Returned("none", 0)
  /\ xf = XfNone
  /\ pr = PrNone

NextSetup == UrlSetupDevice

SpecSetup == InitSetup /\ [][NextSetup]_vars

(***************************************************************************)
(* The accept test alone (SpecTest): test_is_repo, called by               *)
(* url_mount_disk on one repository candidate after another; for a         *)
(* mountable scheme the candidate is mounted at the caller's directory.    *)
(***************************************************************************)
TestIsRepo ==
  /\ pc = "idle"
  /\ HasMps("test_is_repo")
  /\ \E r \in test_func(St, "test_is_repo", conf) :
       /\ SetSt(r.S)
       /\ ret' = Returned("test_is_repo", r.ret)
  /\ UNCHANGED << conf, hw, pc, args, hdi, found, err, attempts, xf, pr >>

\* the candidates as url_mount_disk hands them to the accept test
UrlsTest ==
  UrlsRepo \cup { [u EXCEPT !.mount = "dir"] : u \in { v \in UrlsRepo : v.is.mountable } }

InitTest ==
  /\ url \in UrlsTest
  /\ conf \in ConfsRepo
  /\ hw = << >>
  /\ mounts = [m \in AllMps |-> IF m = url.mount THEN 1 ELSE 0]
  /\ cfg = InitCfg
  /\ log = << >>
  /\ nfail = MaxUmountFail
  /\ pc = "idle"
  /\ args = NoArgs
  /\ hdi = 0
  /\ found = 0
  /\ err = 0
  /\ attempts = << >>
  /\ ret = Returned("none", 0)
  /\ xf = XfNone
  /\ pr = PrNone

NextTest == TestIsRepo

SpecTest == InitTest /\ [][NextTest]_vars

(***************************************************************************)
(* url_read_file alone (SpecRead): callers read a file below a Url, named  *)
(* by src or by the Url's own path.                                        *)
(***************************************************************************)
UrlReadFile ==
  /\ pc = "idle"
  /\ HasMps(NULL)
  /\ \E dir \in { NULL, "dir" }, src \in { NULL, "/content" }, dst \in { NULL, "dst" },
        nosha1 \in BOOLEAN :
       \E r \in urf(St, conf, dir, src, dst, nosha1) :
         /\ SetSt(r.S)
         /\ ret' = Returned("url_read_file", r.ret)
  /\ UNCHANGED << conf, hw, pc, args, hdi, found, err, attempts, xf, pr >>

\* Urls that need no mount, Urls an earlier url_mount resolved to a device,
\* and one that is still mounted
UrlsRead ==
  { UrlOf("http", p, NULL, FALSE) : p \in { "", "/a/b" } }
  \cup { UrlOf("file", "/a/b", NULL, FALSE) }
  \cup { UseDevice(UrlOf("nfs", p, "eth0", FALSE), NetDevs[1]) : p \in { "/a/b", "/x", "/a/b/" } }
  \cup { UseDevice(UrlOf("disk", "/a/b", "sdb", FALSE), BlockDevs[3]),
         [UseDevice(UrlOf("disk", "/a/b", "sdb", FALSE), BlockDevs[3]) EXCEPT !.mount = "dir"] }

InitRead ==
  /\ url \in UrlsRead
  /\ conf \in ConfsMount
  /\ hw = << >>
  /\ mounts = [m \in AllMps |-> IF m = url.mount THEN 1 ELSE 0]
  /\ cfg = InitCfg
  /\ log = << >>
  /\ nfail = MaxUmountFail
  /\ pc = "idle"
  /\ args = NoArgs
  /\ hdi = 0
  /\ found = 0
  /\ err = 0
  /\ attempts = << >>
  /\ ret = Returned("none", 0)
  /\ xf = XfNone
  /\ pr = PrNone

NextRead == UrlReadFile

SpecRead == InitRead /\ [][NextRead]_vars

NextMount ==
  \/ UrlUmount
  \/ UrlMountReject
  \/ \E dir \in Dirs, test \in Tests : UrlMountDirect(dir, test)
  \/ UrlMountDirectReturn
  \/ \E dir \in Dirs, test \in Tests : UrlMountEnumerate(dir, test)
  \/ LoopSkip
  \/ LoopAttempt
  \/ LoopNext
  \/ LoopEnd
  \/ Fallback
  \/ NoFallback
  \/ UrlMountReturn

Next == NextMount

Spec == Init /\ [][Next]_vars

SpecRepo == InitRepo /\ [][Next]_vars

(***************************************************************************)
(* Actions of the Transfer Pipeline: url_read and the callbacks the        *)
(* transfer library makes while curl_easy_perform() runs.                  *)
(***************************************************************************)
SetXf(d, phase, pos) ==
  xf' = [xf EXCEPT !.phase = phase, !.pos = pos, !.d = d]

\* sighandler_t old_sigpipe = signal(SIGPIPE, SIG_IGN)
url_read_sigpipe(x) == [x EXCEPT !.old_sigpipe = x.sigpipe, !.sigpipe = "SIG_IGN"]

\* (url_read returning without the signal() call at its end)
url_read_sigpipe_kept(x) == x

\* signal(SIGPIPE, old_sigpipe)
url_read_sigpipe_restore(x) == [x EXCEPT !.sigpipe = x.old_sigpipe]

\* url_read up to curl_easy_perform(): the digest is started, the proxy
\* address checked, the progress indicator initialised
UrlReadStart ==
  /\ xf.phase = "new"
  /\ \E e \in { 0, 105 } :
       \E r \in progress([xf.d EXCEPT !.sha1_ctx = sha1_init_ctx, !.err = e,
                                      !.err_buf = IF e = 0 THEN @ ELSE MsgProxy], 0) :
         xf' = [url_read_sigpipe(xf) EXCEPT
                  !.phase = IF e = 0 THEN "perform" ELSE "performed",
                  !.pos = 0, !.d = r.S]
  /\ UNCHANGED << mountVars, pr >>

\* the library delivers the next n bytes to url_write_cb; the transfer is
\* aborted if the callback does not take them
CurlWrite(n) ==
  /\ xf.phase = "perform"
  /\ n > 0
  /\ xf.pos + n <= Len(xf.content)
  /\ \E d \in url_write_cb(xf.d, SubSeq(xf.content, xf.pos + 1, xf.pos + n)) :
       xf' = [xf EXCEPT !.d = IF d.err # 0 THEN [d EXCEPT !.curl_err_buf = MsgCurl]
                                            ELSE d,
                        !.pos = @ + n, !.chunked = xf.pos > 0,
                        !.phase = IF d.err # 0 THEN "performed" ELSE "perform"]
  /\ UNCHANGED << mountVars, pr >>

\* url_progress_cb: the library reports the expected size; a non-zero
\* return aborts the transfer (CURLE_ABORTED_BY_CALLBACK)
CurlProgress ==
  /\ xf.phase = "perform"
  /\ \E dltotal \in { 0, Len(xf.content) } :
       LET d1 == IF xf.d.p_total = 0 THEN [xf.d EXCEPT !.p_total = dltotal] ELSE xf.d
       IN  \E r \in progress(d1, 1) :
             IF r.ret # 0
             THEN SetXf([r.S EXCEPT !.err = 42, !.vetoed = TRUE,
                                    !.curl_err_buf = MsgCurl], "performed", xf.pos)
             ELSE SetXf(r.S, "perform", xf.pos)
  /\ UNCHANGED << mountVars, pr >>

\* curl_easy_perform() returns: all bytes were delivered, or the transfer
\* failed (CURLE_COULDNT_CONNECT, CURLE_HTTP_RETURNED_ERROR, ...)
CurlReturn ==
  /\ xf.phase = "perform"
  /\ \/ /\ xf.pos = Len(xf.content)
        /\ SetXf(xf.d, "performed", xf.pos)
     \/ SetXf([xf.d EXCEPT !.err = 7, !.curl_err_buf = MsgCurl], "performed", xf.pos)
  /\ UNCHANGED << mountVars, pr >>

\* url_read after curl_easy_perform(): what is still buffered is flushed
UrlReadFlush ==
  /\ xf.phase = "performed"
  /\ IF xf.d.err = 0
     THEN \E d \in url_write_cb([xf.d EXCEPT !.flush = TRUE], << >>) :
            SetXf(d, "flushed", xf.pos)
     ELSE SetXf(xf.d, "flushed", xf.pos)
  /\ UNCHANGED << mountVars, pr >>

\* isspace() on the pieces of a message
Spaces == { " ", "\n" }

\* while(i > 0 && isspace(buf[i])) buf[i--] = 0
TrimRight(s) ==
  LET keep == { i \in 1..Len(s) : i = 1 \/ s[i] \notin Spaces }
  IN  IF keep = {} THEN s
      ELSE SubSeq(s, 1, CHOOSE i \in keep : \A j \in keep : j <= i)

\* while(isspace(*s)) s++
TrimLeft(s) ==
  LET stop == { i \in 1..(Len(s) + 1) : i > Len(s) \/ s[i] \notin Spaces }
  IN  SubSeq(s, CHOOSE i \in stop : \A j \in stop : i <= j, Len(s))

\* what pclose() can report: the exit code of "gzip -dc", or -1 for a
\* decompressor that did not exit by itself
GzipExits == { -1, 0, 1, 2 }

\* what "gzip -dc" can have written to its stderr
GzipStderrs == { NoMsg, << " ", "gzip:", " ", "eof", "\n" >> }

\* the exit status of the decompressor looked at: neither 0 nor 2 is an error,
\* reported with what the decompressor wrote to stderr
url_read_gzip_exit(d, status, text) ==
  LET i == IF status >= 0 THEN status ELSE 0
      d1 == [d EXCEPT !.gz_exit = status, !.gz_stderr = text]
      d2 == IF d1.tmp_file # NULL /\ d1.err = 0
            THEN [d1 EXCEPT !.err_buf = TrimLeft(TrimRight(text))]
            ELSE d1
  IN  IF i # 0 /\ i # 2
      THEN [d2 EXCEPT !.err = 103, !.err_buf = MsgGzip]
      ELSE d1

\* pclose() or fclose() of the output, and the error it makes
url_read_close(d) ==
  IF d.f = NULL THEN { d }
  ELSE LET d1 == [d EXCEPT !.f = NULL]
       IN  IF d.pipe_fd >= 0
           THEN { url_read_gzip_exit(d1, status, text)
                  : status \in GzipExits, text \in GzipStderrs }
           ELSE { d1, IF d1.err = 0 THEN [d1 EXCEPT !.err = 104] ELSE d1 }

\* url_read's end without the unlink() of the temporary file
url_read_finish_keep_tmp(d) ==
  LET d0 == [d EXCEPT !.pipe_fd = -1]
      d1 == IF d0.err_buf = NoMsg
            THEN [d0 EXCEPT !.err_buf = d0.curl_err_buf, !.curl_err_buf = NoMsg]
            ELSE d0
  IN  { IF r.S.err = 0
        THEN [r.S EXCEPT !.sha1 = Some(sha1_finish_ctx(r.S.sha1_ctx))]
        ELSE r.S
        : r \in progress(d1, 2) }

\* url_read's end: the digest is finished if no error was met
url_read_finish(d) ==
  LET d0 == [d EXCEPT !.pipe_fd = -1,
                      !.tmp_exists = IF d.tmp_file # NULL THEN FALSE ELSE @]
      d1 == IF d0.err_buf = NoMsg
            THEN [d0 EXCEPT !.err_buf = d0.curl_err_buf, !.curl_err_buf = NoMsg]
            ELSE d0
  IN  { IF r.S.err = 0
        THEN [r.S EXCEPT !.sha1 = Some(sha1_finish_ctx(r.S.sha1_ctx))]
        ELSE r.S
        : r \in progress(d1, 2) }

\* url_read: the output is closed, the progress indicator brought to its end,
\* temporary files removed and the digest finished
UrlReadEnd ==
  /\ xf.phase = "flushed"
  /\ \E c \in url_read_close(xf.d) :
       \E w \in url_write_cb([c EXCEPT !.flush = FALSE], << >>) :
         \E d \in url_read_finish(w) :
           xf' = [url_read_sigpipe_restore(xf) EXCEPT !.phase = "done", !.d = d]
  /\ UNCHANGED << mountVars, pr >>

NextTransfer ==
  \/ UrlReadStart
  \/ \E n \in ChunkSizes \cup { Len(xf.content) - xf.pos } : CurlWrite(n)
  \/ CurlProgress
  \/ CurlReturn
  \/ UrlReadFlush
  \/ UrlReadEnd

\* a transfer about to be read, and the SIGPIPE disposition of the caller
XfNew ==
  { [phase |-> "new", content |-> c, pos |-> 0, chunked |-> FALSE,
     d |-> url_data_new(unzip, prog),
     sigpipe |-> s, caller_sigpipe |-> s, old_sigpipe |-> NULL] :
      c \in Contents, unzip \in BOOLEAN, prog \in { NULL, "url_progress", "custom" },
      s \in { "SIG_DFL", "SIG_IGN" } }

InitTransfer ==
  /\ InitMount({ UrlOf("http", "", NULL, FALSE) },
               { c \in ConfsMount : ~c.hd_data /\ c.dir = NULL }, 0)
  /\ xf \in XfNew
  /\ pr = PrNone

SpecTransfer == InitTransfer /\ [][NextTransfer]_vars

(***************************************************************************)
(* url_set() and url_print(): a C string is the sequence of its            *)
(* characters, a pointer that may be NULL is None or Some(string).         *)
(***************************************************************************)
Take(s, n) == SubSeq(s, 1, n)
Drop(s, n) == SubSeq(s, n + 1, Len(s))

\* strchr(): the index of the first c in s, 0 when s has none
strchr(s, c) ==
  IF \E i \in 1..Len(s) : s[i] = c
  THEN CHOOSE i \in 1..Len(s) : s[i] = c /\ \A j \in 1..(i - 1) : s[j] # c
  ELSE 0

\* strcspn(): the length of the longest prefix of s with no character of reject
strcspn(s, reject) ==
  IF \E i \in 1..Len(s) : s[i] \in reject
  THEN (CHOOSE i \in 1..Len(s) :
          s[i] \in reject /\ \A j \in 1..(i - 1) : s[j] \notin reject) - 1
  ELSE Len(s)

\* the schemes of the inst_* enumeration and their names
SchemeNames ==
  [none   |-> << "n", "o", "n", "e" >>,
   file   |-> << "f", "i", "l", "e" >>,
   nfs    |-> << "n", "f", "s" >>,
   smb    |-> << "s", "m", "b" >>,
   cdrom  |-> << "c", "d", "r", "o", "m" >>,
   dvd    |-> << "d", "v", "d" >>,
   floppy |-> << "f", "l", "o", "p", "p", "y" >>,
   hd     |-> << "h", "d" >>,
   disk   |-> << "d", "i", "s", "k" >>,
   exec   |-> << "e", "x", "e", "c" >>,
   http   |-> << "h", "t", "t", "p" >>,
   ftp    |-> << "f", "t", "p" >>,
   tftp   |-> << "t", "f", "t", "p" >>,
   slp    |-> << "s", "l", "p" >>,
   rel    |-> << "r", "e", "l" >>]

\* get_instmode_name(): the name of a scheme
get_instmode_name(scheme) == SchemeNames[scheme]

\* file_sym2num(): the scheme a name stands for; "-1" for a name that stands
\* for nothing, "-2" (negative, not -1) for the empty name
file_sym2num(sym) ==
  IF sym = << >> THEN "-2"
  ELSE IF \E s \in DOMAIN SchemeNames : SchemeNames[s] = sym
  THEN CHOOSE s \in DOMAIN SchemeNames : SchemeNames[s] = sym
  ELSE "-1"

\* the hexadecimal digits
HexDigits ==
  << "0", "1", "2", "3", "4", "5", "6", "7", "8", "9", "A", "B", "C", "D", "E", "F" >>

\* the value of a hexadecimal digit of either case, -1 for any other character
XDigitVal(c) ==
  LET lower == << "0", "1", "2", "3", "4", "5", "6", "7", "8", "9",
                  "a", "b", "c", "d", "e", "f" >>
      is(i) == c = HexDigits[i] \/ c = lower[i]
  IN IF \E i \in 1..Len(HexDigits) : is(i)
     THEN (CHOOSE i \in 1..Len(HexDigits) : is(i)) - 1
     ELSE -1

\* the characters curl_easy_escape() does not leave as they are
Reserved == { " ", "%", "&", "/", ":", ";", "=", "?", "@" }

\* the codes of the characters the strings here are made of
CharCodes ==
  { << "a", 97 >>, << " ", 32 >>, << "%", 37 >>, << "&", 38 >>, << "/", 47 >>, << ":", 58 >>,
    << ";", 59 >>, << "=", 61 >>, << "?", 63 >>, << "@", 64 >> }

\* curl_easy_unescape(): every %XX becomes the character with code XX
RECURSIVE curl_easy_unescape(_)
curl_easy_unescape(s) ==
  IF s = << >> THEN << >>
  ELSE IF /\ s[1] = "%" /\ Len(s) >= 3 /\ XDigitVal(s[2]) >= 0 /\ XDigitVal(s[3]) >= 0
          /\ \E p \in CharCodes : p[2] = 16 * XDigitVal(s[2]) + XDigitVal(s[3])
  THEN << (CHOOSE p \in CharCodes : p[2] = 16 * XDigitVal(s[2]) + XDigitVal(s[3]))[1] >>
         \o curl_easy_unescape(Drop(s, 3))
  ELSE << s[1] >> \o curl_easy_unescape(Tail(s))

\* curl_easy_escape(): every character that is not unreserved becomes %XX
RECURSIVE curl_easy_escape(_)
curl_easy_escape(s) ==
  IF s = << >> THEN << >>
  ELSE IF s[1] \in Reserved
  THEN LET code == (CHOOSE p \in CharCodes : p[1] = s[1])[2] IN
       << "%", HexDigits[(code \div 16) + 1], HexDigits[(code % 16) + 1] >>
         \o curl_easy_escape(Tail(s))
  ELSE << s[1] >> \o curl_easy_escape(Tail(s))

\* the digits of strtoul() in a base, from s on: the value and what follows
RECURSIVE strtoul_digits(_, _, _)
strtoul_digits(s, base, acc) ==
  IF s # << >> /\ XDigitVal(s[1]) >= 0 /\ XDigitVal(s[1]) < base
  THEN strtoul_digits(Tail(s), base, acc * base + XDigitVal(s[1]))
  ELSE [val |-> acc, rest |-> s]

\* strtoul(s, &end, 0): hexadecimal after "0x", octal after "0", else decimal
strtoul(s) ==
  IF Len(s) >= 3 /\ s[1] = "0" /\ s[2] \in { "x", "X" } /\ XDigitVal(s[3]) >= 0
  THEN strtoul_digits(Drop(s, 2), 16, 0)
  ELSE IF s # << >> /\ s[1] = "0" THEN strtoul_digits(s, 8, 0)
  ELSE strtoul_digits(s, 10, 0)

\* printf("%u")
RECURSIVE print_u(_)
print_u(n) ==
  IF n < 10 THEN << HexDigits[n + 1] >>
  ELSE print_u(n \div 10) \o << HexDigits[(n % 10) + 1] >>

\* slist_split(): the pieces of s between the separators
RECURSIVE slist_split(_, _)
slist_split(sep, s) ==
  LET n == strchr(s, sep) IN
  IF n = 0 THEN << s >> ELSE << Take(s, n - 1) >> \o slist_split(sep, Drop(s, n))

\* key and value of one piece of the query, url_set() line 382
query_entry(key) ==
  LET n == strchr(key, "=") IN
  IF n > 0 THEN [key |-> Take(key, n - 1), value |-> Some(Drop(key, n))]
  ELSE [key |-> key, value |-> None]

\* slist_getentry(): the first entry with the key, or None
slist_getentry(sl, key) ==
  IF \E i \in 1..Len(sl) : sl[i].key = key
  THEN Some(sl[CHOOSE i \in 1..Len(sl) :
                 sl[i].key = key /\ \A j \in 1..(i - 1) : sl[j].key # key])
  ELSE None

DevDir == << "/", "d", "e", "v", "/" >>

\* short_dev() on a string of characters
short_dev_str(name) ==
  IF Len(name) >= Len(DevDir) /\ Take(name, Len(DevDir)) = DevDir
  THEN Drop(name, Len(DevDir)) ELSE name

\* stat(): /dev is a directory and holds the block device sda1 and the
\* directory m with the block device x
stat(name) ==
  IF name \in { << "/" >>, Take(DevDir, Len(DevDir) - 1), DevDir,
                DevDir \o << "m" >>, DevDir \o << "m", "/" >> } THEN "dir"
  ELSE IF name \in { DevDir \o << "s", "d", "a", "1" >>, DevDir \o << "m", "/", "x" >> }
  THEN "blk"
  ELSE ENOENT

\* a Url fresh from calloc()
url_new ==
  [str |-> None, scheme |-> "none", server |-> None, port |-> 0, share |-> None,
   path |-> None, user |-> None, password |-> None, domain |-> None,
   device |-> None, instsys |-> None, query |-> << >>,
   used |-> [device |-> None, hwaddr |-> None],
   is |-> [mountable |-> FALSE, network |-> FALSE, cdrom |-> FALSE]]

\* a scheme for every name before a ':', relative when it names none
us_scheme_rel(i) == IF i \notin { "-1", "-2" } THEN i ELSE "rel"

\* url_set(), line 365: i >= 0 ? i : inst_none
us_scheme(i) == IF i \notin { "-1", "-2" } THEN i ELSE "none"

\* url_set(), lines 358 to 404: scheme, authority block, query and path
us_split(str) ==
  LET c == strchr(str, ":") IN
  IF c > 0
  THEN LET i == file_sym2num(Take(str, c - 1))
           scheme == us_scheme(i)
           s1 == Drop(str, c)
           auth == Len(s1) >= 2 /\ s1[1] = "/" /\ s1[2] = "/"
           n == IF auth THEN strcspn(Drop(s1, 2), { "/", "?" }) ELSE 0
           s0 == IF auth THEN Drop(s1, n + 2) ELSE s1
           q == strchr(s0, "?")
           s2 == IF q > 0 THEN Take(s0, q - 1) ELSE s0
       IN IF scheme # "none"
          THEN [u |-> [url_new EXCEPT
                         !.str = Some(str), !.scheme = scheme,
                         !.query = IF q > 0
                                   THEN [k \in 1..Len(slist_split("&", Drop(s0, q)))
                                           |-> query_entry(slist_split("&", Drop(s0, q))[k])]
                                   ELSE << >>,
                         !.path = Some(IF s2 # << >> /\ s2[1] = "/" THEN Tail(s2) ELSE s2)],
                tmp |-> IF auth /\ n > 0 THEN Some(Take(Drop(s1, 2), n)) ELSE None]
          ELSE [u |-> [url_new EXCEPT !.str = Some(str)], tmp |-> None]
  ELSE LET i == file_sym2num(str) IN
       [u |-> IF i \notin { "-1", "-2" }
              THEN [url_new EXCEPT !.str = Some(str), !.scheme = i, !.path = Some(<< >>)]
              ELSE IF i = "-1"
              THEN [url_new EXCEPT !.str = Some(str), !.scheme = "rel", !.path = Some(str)]
              ELSE [url_new EXCEPT !.str = Some(str)],
        tmp |-> None]

\* url_set(), lines 408 to 439: domain, user, password, port and server
us_authority(u, tmp) ==
  LET d == strchr(tmp, ";")
      s0 == IF d > 0 THEN Drop(tmp, d) ELSE tmp
      a == strchr(s0, "@")
      ui == IF a > 0 THEN Take(s0, a - 1) ELSE << >>
      p == strchr(ui, ":")
      s1 == IF a > 0 THEN Drop(s0, a) ELSE s0
      c == strchr(s1, ":")
      num == strtoul(Drop(s1, c))
  IN [u EXCEPT
        !.domain = IF d > 0 THEN Some(Take(tmp, d - 1)) ELSE None,
        !.password = IF a > 0 /\ p > 0 THEN Some(Drop(ui, p)) ELSE None,
        !.user = IF a = 0 THEN None
                 ELSE IF p > 0 THEN Some(Take(ui, p - 1)) ELSE Some(ui),
        !.port = IF c > 0 /\ Drop(s1, c) # << >> /\ num.rest = << >> THEN num.val ELSE 0,
        !.server = Some(IF c > 0 THEN Take(s1, c - 1) ELSE s1)]

\* url_set(), lines 442 to 450: the first path element of smb is the share
us_share(u) ==
  IF u.scheme = "smb" /\ u.path # None
  THEN LET n == strchr(u.path[1], "/") IN
       [u EXCEPT !.share = Some(IF n > 0 THEN Take(u.path[1], n - 1) ELSE u.path[1]),
                 !.path = IF n > 0 THEN Some(Drop(u.path[1], n)) ELSE None]
  ELSE u

\* url_set(), lines 453 to 466: every string that is set is unescaped
us_unescape(u) ==
  [f \in DOMAIN u |->
     IF f \in { "server", "share", "path", "user", "password", "domain" } /\ u[f] # None
     THEN Some(curl_easy_unescape(u[f][1]))
     ELSE u[f]]

\* the schemes whose path may begin with a device name
DiskFamily == { "disk", "cdrom", "dvd", "floppy", "hd" }

\* one round of the loop of lines 488 to 499: tmp is cut at the first '/'
\* after index s0 and looked at
RECURSIVE us_probe(_, _, _)
us_probe(u, tmp, s0) ==
  LET n == strchr(Drop(tmp, s0), "/")
      cut == IF n > 0 THEN s0 + n ELSE 0
      name == IF cut > 0 THEN Take(tmp, cut - 1) ELSE tmp
      st == stat(name)
      u1 == IF st = "blk"
            THEN [u EXCEPT !.device = Some(short_dev_str(name)),
                           !.path = IF cut > 0 THEN Some(Drop(tmp, cut)) ELSE None]
            ELSE u
  IN IF st = ENOENT THEN u
     ELSE IF st = "dir" /\ cut > 0 THEN us_probe(u1, tmp, cut)
     ELSE u1

\* us_device() with "dev/" put before every path
us_device_always_dev(u) ==
  IF u.scheme \in DiskFamily /\ u.path # None
  THEN us_probe(u, DevDir \o u.path[1], 1)
  ELSE u

\* url_set(), lines 469 to 506: a leading device name is taken off the path
us_device(u) ==
  IF u.scheme \in DiskFamily /\ u.path # None
  THEN LET p == u.path[1]
           dev == /\ Len(p) >= 3
                  /\ Take(p, 3) = << "d", "e", "v" >>
                  /\ (Len(p) = 3 \/ p[4] = "/")
       IN us_probe(u, (IF dev THEN << "/" >> ELSE DevDir) \o p, 1)
  ELSE u

QDevice == << "d", "e", "v", "i", "c", "e" >>
QInstsys == << "i", "n", "s", "t", "s", "y", "s" >>

\* url_set(), lines 508 to 515: device= and instsys= of the query
us_query(u) ==
  LET d == slist_getentry(u.query, QDevice)
      i == slist_getentry(u.query, QInstsys)
      s0 == short_dev_str(IF d[1].value = None THEN << >> ELSE d[1].value[1])
      u1 == IF d = None THEN u
            ELSE [u EXCEPT !.device = IF s0 # << >> THEN Some(s0) ELSE None]
  IN IF i = None THEN u1 ELSE [u1 EXCEPT !.instsys = i[1].value]

\* the capabilities alone, the path left as it was parsed
us_flags_keep_path(u) ==
  [u EXCEPT !.is = [mountable |-> u.scheme \in Mountable,
                    network |-> u.scheme \in Network,
                    cdrom |-> u.scheme \in Cdrom]]

\* us_flags() with is.cdrom set for cdrom alone
us_flags_cdrom_only(u) ==
  LET m == u.scheme \in Mountable IN
  [u EXCEPT !.is = [mountable |-> m, network |-> u.scheme \in Network,
                    cdrom |-> u.scheme = "cdrom"],
            !.path = IF ~m THEN @
                     ELSE IF @ = None THEN Some(<< "/" >>)
                     ELSE IF @[1] = << >> \/ @[1][1] # "/" THEN Some(<< "/" >> \o @[1])
                     ELSE @]

\* url_set(), lines 517 to 559: the capabilities, and the leading '/' of a
\* mountable path
us_flags(u) ==
  LET m == u.scheme \in Mountable IN
  [u EXCEPT !.is = [mountable |-> m, network |-> u.scheme \in Network,
                    cdrom |-> u.scheme \in Cdrom],
            !.path = IF ~m THEN @
                     ELSE IF @ = None THEN Some(<< "/" >>)
                     ELSE IF @[1] = << >> \/ @[1][1] # "/" THEN Some(<< "/" >> \o @[1])
                     ELSE @]

\* url_set(): str is None for a NULL pointer
url_set(str) ==
  IF str = None THEN url_new
  ELSE LET r == us_split(str[1])
           a == IF r.tmp # None THEN us_authority(r.u, r.tmp[1]) ELSE r.u
       IN us_flags(us_query(us_device(us_unescape(us_share(a)))))

\* url_print(): what it appends for the device and the hardware address
up_query(u, format, debug) ==
  LET s == IF u.used.device # None THEN u.used.device ELSE u.device
      dev == IF format \in { 0, 2 } /\ s # None
             THEN << "?" >> \o QDevice \o << "=" >> \o short_dev_str(s[1]) ELSE << >>
      hwa == IF format = 0 /\ debug >= 2 /\ u.used.hwaddr # None
            THEN << (IF dev # << >> THEN "&" ELSE "?") >>
                   \o << "h", "w", "a", "d", "d", "r", "=" >> \o u.used.hwaddr[1]
            ELSE << >>
  IN dev \o hwa

\* url_print(), lines 621 to 636: the authority block
up_authority(u) ==
  IF \/ u.domain # None \/ u.user # None \/ u.password # None
     \/ u.server # None \/ u.port # 0
  THEN << "/", "/" >>
       \o (IF u.domain # None THEN u.domain[1] \o << ";" >> ELSE << >>)
       \o (IF u.user # None THEN curl_easy_escape(u.user[1]) ELSE << >>)
       \o (IF u.password # None
           THEN << ":" >> \o curl_easy_escape(u.password[1]) ELSE << >>)
       \o (IF u.user # None \/ u.password # None THEN << "@" >> ELSE << >>)
       \o (IF u.server # None THEN u.server[1] ELSE << >>)
       \o (IF u.port # 0 THEN << ":" >> \o print_u(u.port) ELSE << >>)
  ELSE << >>

\* url_print(), lines 638 to 645: share and path
up_path(u) ==
  (IF u.share # None THEN << "/" >> \o u.share[1] ELSE << >>)
  \o (IF u.path # None /\ (u.scheme # "slp" \/ u.path[1] # << >>)
      THEN LET p == u.path[1]
               abs == p # << >> /\ p[1] = "/"
           IN << "/" >>
              \o (IF u.scheme = "ftp" /\ abs THEN << "%", "2", "F" >> ELSE << >>)
              \o (IF abs THEN Tail(p) ELSE p)
      ELSE << >>)

\* url_print(): the string for a Url
url_print(u, format, debug) ==
  get_instmode_name(u.scheme) \o << ":" >> \o up_authority(u) \o up_path(u)
    \o up_query(u, format, debug)

(***************************************************************************)
(* The strings given to url_set(): scheme, authority block, path and       *)
(* query put together, and strings without a ':'.                          *)
(***************************************************************************)
StrSchemes ==
  { SchemeNames[s] : s \in DOMAIN SchemeNames \ { "none", "rel" } }
  \cup { << "x", "y" >> }

StrAuthorities ==
  { << >>,
    << "/", "/", "s" >>,
    << "/", "/", "u", "@", "s" >>,
    << "/", "/", "u", ":", "p", "@", "s", ":", "8", "0" >>,
    << "/", "/", "w", ";", "u", "@", "s", ":", "0", "1", "0" >>,
    << "/", "/", "u", "%", "4", "0", "a", ":", "p", "%", "3", "A", "@", "s" >>,
    << "/", "/", "s", ":", "8", "x" >> }

StrPaths ==
  { << >>,
    << "/" >>,
    << "a" >>,
    << "/", "a" >>,
    << "/", "a", "/", "b" >>,
    << "/", "/", "a" >>,
    << "/", "a", "%", "2", "F", "b" >>,
    << "/", "a", "%", "3", "F", "b" >>,
    << "/", "a", "%", "2", "5", "6", "1" >>,
    << "/", "s", "d", "a", "1", "/", "a" >>,
    << "/", "m", "/", "x", "/", "a", "/", "b" >>,
    << "/", "d", "e", "v", "/", "s", "d", "a", "1" >> }

StrQueries ==
  { << >>,
    << "?" >> \o QDevice \o << "=", "s", "d", "b" >>,
    << "?" >> \o QInstsys \o << "=", "a", "&" >> \o QDevice \o << "=" >> \o DevDir \o << "s", "d", "b" >> }

\* NULL, and the strings
UrlStrings ==
  { None }
  \cup { Some(s \o << ":" >> \o a \o p \o q) :
           s \in StrSchemes, a \in StrAuthorities, p \in StrPaths, q \in StrQueries }
  \cup { Some(s) : s \in StrSchemes \cup { << >>, << "a", "/", "b" >> } }

\* url_set() is called with the string
UrlSet ==
  /\ pr.phase = "str"
  /\ pr' = [phase |-> "set", str |-> pr.str, url |-> url_set(pr.str)]
  /\ UNCHANGED << mountVars, xf >>

\* url_print() is called with the Url
UrlPrint ==
  /\ pr.phase = "set"
  /\ \E format \in 0..2, debug \in { 0, 2 } :
       pr' = [phase |-> "printed", str |-> pr.str, url |-> pr.url, format |-> format,
              buf |-> url_print(pr.url, format, debug)]
  /\ UNCHANGED << mountVars, xf >>

\* url_set() is called with what url_print() returned
UrlSetPrinted ==
  /\ pr.phase = "printed"
  /\ pr' = [phase |-> "reset", str |-> pr.str, url |-> pr.url, format |-> pr.format,
            buf |-> pr.buf, url2 |-> url_set(Some(pr.buf))]
  /\ UNCHANGED << mountVars, xf >>

NextParse ==
  \/ UrlSet
  \/ UrlPrint
  \/ UrlSetPrinted

InitParse ==
  /\ InitMount({ UrlOf("http", "", NULL, FALSE) },
               { c \in ConfsMount : ~c.hd_data /\ c.dir = NULL }, 0)
  /\ xf = XfNone
  /\ pr \in { [phase |-> "str", str |-> s] : s \in UrlStrings }

SpecParse == InitParse /\ [][NextParse]_vars

(***************************************************************************)
(* Reading the history: the OS calls and url_mount_disk attempts recorded. *)
(***************************************************************************)
MountEvents(l) == { i \in 1..Len(l) : l[i].op = "mount" }

\* the unmount calls on the mountpoint of mount event i that follow it
UmountAfter(l, i) ==
  { k \in (i + 1)..Len(l) : l[k].op = "umount" /\ l[k].mp = l[i].mp }

FailedUmounts(l, mp) ==
  Cardinality({ k \in 1..Len(l) : l[k].op = "umount" /\ l[k].mp = mp /\ ~l[k].ok })

\* the active mounts on mp the Url owns
OwnedAt(mp) == IF mounts[mp] > 0 /\ mp \in { url.mount, url.tmp_mount } THEN 1 ELSE 0

MountDiskFailed == ret = Returned("url_mount_disk", 0)

MountSucceeded == ret = Returned("url_mount", 0)

HdAttempts == { i \in 1..Len(attempts) : attempts[i].by = "hd" }

Accepted == { i \in 1..Len(attempts) : attempts[i].ok # 0 }

(***************************************************************************)
(* The Mount Orchestrator's contract.                                      *)
(***************************************************************************)
\* C1: after a url_mount_disk call that returned 0, url.mount and
\* url.tmp_mount are both empty.
C1_FailedMountDiskForgetsMounts ==
  MountDiskFailed => url.mount = NULL /\ url.tmp_mount = NULL

\* a call that mounted something and then failed
C1_Witness == MountDiskFailed /\ MountEvents(log) # {}

C3_SuccessHasActiveMount ==
  MountSucceeded /\ url.is.mountable => Active(mounts, url.mount)

\* C4: when url_mount returns 0 after walking the hardware list,
\* url.used.device is the device of a candidate whose attempt was accepted.
C4_SuccessKeepsAcceptedDevice ==
  MountSucceeded /\ HdAttempts # {}
  => \E i \in HdAttempts \cap Accepted : url.used.device = attempts[i].device

\* C5: url_mount without a resolved device returns 0 exactly if one of its
\* url_mount_disk attempts returned 1 or 2.
C5_SuccessIffAccepted ==
  ret.fn = "url_mount" /\ (\A i \in 1..Len(attempts) : attempts[i].by # "used")
  => (ret.val = 0 <=> Accepted # {})

\* C6: the candidates are attempted in list order, none after an attempt that
\* returned 1, and every matching candidate up to there is attempted.
C6_CandidatesInOrderUntilAccept ==
  /\ \A i, j \in HdAttempts :
       i < j => attempts[i].hd < attempts[j].hd /\ attempts[i].ok # 1
  /\ pc \in { "loop", "after_loop" }
     => \A k \in 1..Len(Candidates) :
          /\ pc = "loop" => k < hdi
          /\ ~Excluded(url, Candidates[k])
          /\ Matched(url, Candidates[k])
          /\ \A i \in HdAttempts : attempts[i].hd < k => attempts[i].ok # 1
          => \E i \in HdAttempts : attempts[i].hd = k

\* the loop went on after an attempt that returned 2
C6_Witness ==
  /\ pc = "after_loop"
  /\ \E i, j \in HdAttempts : i < j /\ attempts[i].ok = 2

\* C7: a failing url_mount_disk call unmounts what it mounted in the reverse
\* order: the mount created later is unmounted first.
C7_UnwindInReverseOrder ==
  MountDiskFailed
  => \A i, j \in MountEvents(log) :
       i < j => /\ UmountAfter(log, i) # {}
                /\ UmountAfter(log, j) # {}
                /\ \A ki \in UmountAfter(log, i), kj \in UmountAfter(log, j) : kj < ki

\* a failed call that had mounted both the temporary and the target mount
C7_Witness ==
  MountDiskFailed /\ \E i, j \in MountEvents(log) : i < j

\* C8: a non-empty url.mount or url.tmp_mount names an active mount.
C8_MountFieldsNameActiveMounts ==
  /\ url.mount # NULL => Active(mounts, url.mount)
  /\ url.tmp_mount # NULL => Active(mounts, url.tmp_mount)

\* the calls of the accept test and their returns in the history
TestCalls(l) == { i \in 1..Len(l) : l[i].op = "test" }
TestReturns(l) == { i \in 1..Len(l) : l[i].op = "tested" }

\* the mount on mp made at event j is active at event i
MountedAt(l, j, i) ==
  /\ j \in MountEvents(l) /\ j < i
  /\ \A k \in UmountAfter(l, j) : k > i \/ ~l[k].ok

\* the accept test is called at most once, and for a mountable Url only with
\* url.mount naming a mount this call made and did not unmount
TestedAfterMount ==
  /\ Cardinality(TestCalls(log)) <= 1
  /\ \A i \in TestCalls(log) :
       url.is.mountable
         => \E j \in MountEvents(log) : log[j].mp = log[i].mp /\ MountedAt(log, j, i)

\* the call returns what an accepting test returned
ReturnsTestResult ==
  \A i \in TestReturns(log) : log[i].val # 0 => ret.val = log[i].val

FallbackAttempts == { i \in 1..Len(attempts) : attempts[i].by = "device" }

\* url_mount has walked the hardware list and decided about the fallback
EnumerationDone ==
  \/ pc = "finish"
  \/ /\ ret.fn = "url_mount"
     /\ ~Refused
     /\ \A i \in 1..Len(attempts) : attempts[i].by # "used"

\* C24: if no candidate was attempted and the Url has a device hint,
\* url_mount makes exactly one url_mount_disk attempt with used.device the
\* long form of the hint and used.model, hwaddr and unique_id empty, and
\* returns 0 exactly if that attempt was accepted; the fallback is not taken
\* when a candidate was attempted, whether it failed or was accepted
C24_FallbackOnlyWithoutCandidates ==
  EnumerationDone =>
    IF HdAttempts = {} /\ url.device # NULL
    THEN /\ Len(attempts) = 1
         /\ attempts[1].by = "device"
         /\ attempts[1].device = "/dev/" \o url.device
         /\ pc = "finish"
              => /\ url.used.device = "/dev/" \o url.device
                 /\ url.used.hwaddr = NULL
                 /\ url.used.model = NULL
                 /\ url.used.unique_id = NULL
         /\ ret.fn = "url_mount" => (ret.val = 0 <=> attempts[1].ok # 0)
    ELSE FallbackAttempts = {}

\* url_mount returned 0 after the fallback attempt alone was accepted
C24_Witness ==
  /\ ret = Returned("url_mount", 0)
  /\ Len(attempts) = 1
  /\ attempts[1].by = "device" /\ attempts[1].ok # 0

\* the entries of the hardware list the walk has come to
Walked ==
  { k \in 1..Len(Candidates) :
      \/ pc = "loop" /\ k < hdi
      \/ pc = "after_loop" /\ k <= hdi }

\* the entry has a device path and, for hd and disk, is no floppy, no CD-ROM
\* and has no partitions below it
Eligible(h) ==
  /\ h.unix_dev_name # NULL
  /\ url.scheme \in { "hd", "disk" }
       => h.class # "floppy" /\ h.class # "cdrom" /\ ~h.child_ids

\* the Url's device hint names the entry
HintNames(h) ==
  \/ url.device = short_dev(h.unix_dev_name)
  \/ h.hwaddr # NULL /\ url.device = h.hwaddr
  \/ \E n \in h.unix_dev_names : url.device = short_dev(n)

\* C25: of the hardware entries url_mount comes to, one is attempted exactly
\* if it has a device path, is - for scheme hd or disk - no floppy, no CD-ROM
\* and has no partitions, and the Url has no device hint or the hint is the
\* entry's short device name, its hardware address or one of its alternate
\* device names
C25_AttemptedIffMatching ==
  \A k \in Walked :
    (\E i \in HdAttempts : attempts[i].hd = k)
      <=> Eligible(Candidates[k]) /\ (url.device = NULL \/ HintNames(Candidates[k]))

\* an entry was attempted because the hint is one of its alternate names
C25_Witness ==
  \E k \in Walked :
    /\ \E i \in HdAttempts : attempts[i].hd = k
    /\ url.device # NULL
    /\ url.device # short_dev(Candidates[k].unix_dev_name)
    /\ \E n \in Candidates[k].unix_dev_names : url.device = short_dev(n)

\* the NFS mount calls of the server path, and of its parent directory
NfsPathCalls(l) == { i \in 1..Len(l) : l[i].src = "nfs_path" }
NfsParentCalls(l) == { i \in 1..Len(l) : l[i].src = "nfs_parent" }

\* the call failed with `not a directory' or `not found'
NotFound(l, i) == l[i].op = "mountfail" /\ l[i].val \in { ENOTDIR, ENOENT }

\* the path has a directory above its last segment
HasParentSegment(path) ==
  \E i \in 2..Len(PathChars(path)) : PathChars(path)[i] = "/"

\* the path does not end in '/'
HasLastSegment(path) ==
  PathChars(path) # << >> /\ PathChars(path)[Len(PathChars(path))] # "/"

\* the parent directory is mounted once, after the failed mount of the path,
\* at a temporary mountpoint on which nothing else is mounted; if that
\* succeeds, what is mounted at the target is the path below it
RetriedOnce(l, i) ==
  /\ Cardinality(NfsParentCalls(l)) = 1
  /\ \A k \in NfsParentCalls(l) :
       /\ k = i + 1
       /\ l[k].mp \in TmpMps
       /\ \A j \in MountEvents(l) : j # k => l[j].mp # l[k].mp
       /\ l[k].op = "mount"
            => /\ ret.val # 0 => url.tmp_mount = l[k].mp
               /\ \A j \in MountEvents(l) :
                    j > k => l[j].src \in { "tmp_sub", "download" }

\* the attempt failed without a further NFS mount, and the Url has no mounts
FailedForGood(l, i) ==
  /\ \A k \in NfsPathCalls(l) \cup NfsParentCalls(l) : k <= i
  /\ \A k \in MountEvents(l) : k <= i
  /\ ret.val = 0
  /\ url.mount = NULL /\ url.tmp_mount = NULL

NfsMountDiskReturned == ret.fn = "url_mount_disk" /\ NfsPathCalls(log) # {}

\* C26 as stated: a mount of the server path that fails with ENOTDIR or ENOENT
\* is retried exactly once with the parent directory at a fresh temporary
\* mountpoint, unless the path has no parent segment; any other error, a
\* failed retry or a path without parent segment fails the attempt with no
\* further retry and with url.mount and url.tmp_mount empty
C26_RetryUnlessNoParent ==
  NfsMountDiskReturned =>
    \A i \in NfsPathCalls(log) :
      /\ NotFound(log, i) /\ HasParentSegment(url.path) => RetriedOnce(log, i)
      /\ log[i].op = "mountfail" /\ ~(NotFound(log, i) /\ HasParentSegment(url.path))
           => FailedForGood(log, i)
      /\ \A k \in NfsParentCalls(log) :
           log[k].op = "mountfail" => FailedForGood(log, k)

\* C26: the same, with the retry made only for a path that has both a parent
\* segment and a last segment: a path ending in '/' is not retried either
C26_RetryUnlessNoParentOrLast ==
  NfsMountDiskReturned =>
    \A i \in NfsPathCalls(log) :
      /\ NotFound(log, i) /\ HasParentSegment(url.path) /\ HasLastSegment(url.path)
           => RetriedOnce(log, i)
      /\ ( /\ log[i].op = "mountfail"
           /\ ~( /\ NotFound(log, i)
                 /\ HasParentSegment(url.path)
                 /\ HasLastSegment(url.path) ) )
           => FailedForGood(log, i)
      /\ \A k \in NfsParentCalls(log) :
           log[k].op = "mountfail" => FailedForGood(log, k)

\* the server path was not found, its parent was mounted at url.tmp_mount and
\* the path below it at url.mount
C26_Witness ==
  /\ NfsMountDiskReturned
  /\ ret.val # 0
  /\ \E i \in NfsPathCalls(log) : NotFound(log, i)
  /\ \E k \in NfsParentCalls(log) :
       /\ log[k].op = "mount" /\ url.tmp_mount = log[k].mp
       /\ \E j \in MountEvents(log) : j > k /\ log[j].mp = url.mount

\* the mount calls of url_mount_disk's own steps, failed ones included: those
\* before the accept test is called
MountCalls(l) ==
  { i \in 1..Len(l) :
      l[i].op \in { "mount", "mountfail" } /\ \A t \in TestCalls(l) : i < t }

\* those of them that mounted
Mounted(l) == MountCalls(l) \cap MountEvents(l)

LocalMountDiskReturned == ret.fn = "url_mount_disk" /\ ~url.is.network

NeedsTmpMount == url.scheme # "file" /\ url.path # "/"

\* call i mounts the whole device on a temporary mountpoint with nothing on it
\* and no mount call comes before it
DeviceMountedFirst(l, i) ==
  /\ l[i].src = "device"
  /\ l[i].mp \in TmpMps
  /\ \A j \in MountCalls(l) : j >= i
  /\ \A j \in Mounted(l) : j # i => l[j].mp # l[i].mp

\* C27: a local, non-file Url with a path other than "/" has its whole device
\* mounted at a fresh temporary mountpoint, kept in url.tmp_mount, before
\* anything else is mounted; if that mount fails url_mount_disk returns 0
\* with url.tmp_mount empty and mounts nothing else; for the file scheme or
\* the path "/" there is no temporary mount
C27_DeviceMountedBeforeSubPath ==
  LocalMountDiskReturned =>
    /\ NeedsTmpMount =>
         /\ ret.val # 0 => Mounted(log) # {}
         /\ MountCalls(log) # {} =>
              \E i \in MountCalls(log) :
                /\ DeviceMountedFirst(log, i)
                /\ log[i].op = "mountfail" =>
                     /\ ret.val = 0
                     /\ url.tmp_mount = NULL
                     /\ MountCalls(log) = { i }
                /\ log[i].op = "mount" =>
                     /\ ret.val # 0 => url.tmp_mount = log[i].mp
                     /\ \A j \in MountCalls(log) :
                          j # i => log[j].src \in { "tmp_sub", "download" }
    /\ ~NeedsTmpMount =>
         /\ url.tmp_mount = NULL
         /\ Cardinality(MountCalls(log)) <= 1
         /\ \A j \in Mounted(log) : ret.val # 0 => log[j].mp = url.mount

\* the device was mounted at url.tmp_mount and the sub-path at url.mount
C27_Witness ==
  /\ LocalMountDiskReturned /\ NeedsTmpMount /\ ret.val # 0
  /\ \E i, j \in MountEvents(log) :
       /\ i < j
       /\ log[i].src = "device" /\ log[i].mp = url.tmp_mount
       /\ log[j].src = "tmp_sub" /\ log[j].mp = url.mount

\* the events of the classification step of a url_mount_disk call
ExistChecks(l) == { i \in 1..Len(l) : l[i].op = "exist" }
Copies(l) == { i \in 1..Len(l) : l[i].op = "copy" }
Unlinks(l) == { i \in 1..Len(l) : l[i].op = "unlink" }
NotMountable(l) == { i \in 1..Len(l) : l[i].op = "mountable" /\ ~l[i].ok }

\* the mount calls of the call's own steps after event e
MountCallsAfter(l, e) == { j \in MountCalls(l) : j > e }

\* the mountpoint is the target: the caller's directory, else a temporary one
IsTarget(mp) == IF args.dir # NULL THEN mp = args.dir ELSE mp \in TmpMps

\* the network step has mounted the path at url.mount before event e
MountedByNetwork(l, e) ==
  \E j \in Mounted(l) :
    /\ j < e
    /\ l[j].src = "nfs_path" \/ (l[j].src = "smb_share" /\ url.path = "/")

\* the path is copied to a temp file that is loop-mounted at the target; the
\* temp file is removed exactly if the copy or the mount fails
CopiedAndMounted(l, e) ==
  /\ Cardinality(Copies(l)) = 1
  /\ \A c \in Copies(l) :
       /\ c > e
       /\ ~l[c].ok => MountCallsAfter(l, e) = {} /\ ret.val = 0
       /\ l[c].ok =>
            /\ Cardinality(MountCallsAfter(l, e)) = 1
            /\ \A j \in MountCallsAfter(l, e) :
                 /\ j > c /\ l[j].src = "download" /\ IsTarget(l[j].mp)
                 /\ l[j].op = "mountfail" => ret.val = 0
       /\ Unlinks(l) # {}
            <=> ~l[c].ok \/ \E j \in MountCallsAfter(l, e) : l[j].op = "mountfail"

\* the path is mounted as it is at the target, unless it is mounted already
MountedDirectly(l, e) ==
  /\ Copies(l) = {} /\ Unlinks(l) = {}
  /\ IF MountedByNetwork(l, e)
     THEN MountCallsAfter(l, e) = {}
     ELSE /\ Cardinality(MountCallsAfter(l, e)) = 1
          /\ \A j \in MountCallsAfter(l, e) :
               /\ l[j].src = l[e].src /\ IsTarget(l[j].mp)
               /\ l[j].op = "mountfail" => ret.val = 0

\* C28: url_mount_disk classifies the path of a mountable Url: a path that
\* does not exist fails the attempt; a regular file or block device is copied
\* to a temp file that is loop-mounted at the target exactly if the Url's
\* download flag is set or the path is not mountable as it is, and the temp
\* file is removed if copy or mount fails; every other path is mounted
\* directly at the target unless the network step mounted it at url.mount
C28_PathClassification ==
  ret.fn = "url_mount_disk" /\ url.is.mountable =>
    /\ Cardinality(ExistChecks(log)) <= 1
    /\ \A e \in ExistChecks(log) :
         /\ log[e].val = "0" =>
              ret.val = 0 /\ MountCallsAfter(log, e) = {} /\ Copies(log) = {}
         /\ /\ log[e].val \in { "r", "b" }
            /\ url.download \/ NotMountable(log) # {}
            => CopiedAndMounted(log, e)
         /\ /\ log[e].val # "0"
            /\ ~( /\ log[e].val \in { "r", "b" }
                  /\ url.download \/ NotMountable(log) # {} )
            => MountedDirectly(log, e)

\* a block device that is not mountable as it is was copied and the copy
\* mounted at url.mount
C28_Witness ==
  /\ ret.fn = "url_mount_disk" /\ url.is.mountable /\ ret.val # 0
  /\ \E e \in ExistChecks(log) : log[e].val = "b"
  /\ NotMountable(log) # {}
  /\ \E c \in Copies(log) : \E j \in Mounted(log) :
       j > c /\ log[j].src = "download" /\ log[j].mp = url.mount

\* the events of url_setup_device in a url_mount_disk call
SetupReturns(l) == { i \in 1..Len(l) : l[i].op = "setup" }
Activations(l) == { i \in 1..Len(l) : l[i].op = "activate" }
SlpCalls(l) == { i \in 1..Len(l) : l[i].op = "slp" }
Resolutions(l) == { i \in 1..Len(l) : l[i].op = "resolve" }

\* C29: when url_setup_device returns success for a network Url,
\* url.used.server holds the resolved and validated address of url.server,
\* also when the interface was configured already and the bring-up is
\* skipped; an address that does not resolve or is invalid makes it fail
C29_ServerResolvedOnSuccess ==
  ret.fn = "url_mount_disk" /\ url.is.network =>
    /\ \A i \in SetupReturns(log) :
         log[i].ok => url.used.server = Resolved(url.server)
    /\ \A r \in Resolutions(log) :
         ~log[r].ok => \E i \in SetupReturns(log) : i > r /\ ~log[i].ok

\* SLP discovery i of the log comes after a successful activation of the
\* interface and before any resolution of the server address
SlpInOrder(l, i) ==
  /\ \E a \in Activations(l) : a < i /\ l[a].ok
  /\ \A r \in Resolutions(l) : r > i

\* the fields of the Url SLP discovery may rewrite
SlpFields(u) ==
  << u.scheme, u.server, u.path, u.share, u.user, u.password, u.domain >>

\* C30: for an slp Url, SLP discovery is made only after the interface was
\* activated and before the server address is resolved; if it finds no usable
\* scheme url_setup_device fails, and the Url's scheme, server, path, share
\* and credentials are as they were before the call
C30_SlpAfterActivationBeforeResolve ==
  [][ ret'.fn = "url_mount_disk" =>
        \A i \in SlpCalls(log') :
          /\ url.scheme = "slp"
          /\ SlpInOrder(log', i)
          /\ ~log'[i].ok =>
               /\ \E s \in SetupReturns(log') : s > i /\ ~log'[s].ok
               /\ Resolutions(log') = {}
               /\ ret'.val = 0
               /\ SlpFields(url') = SlpFields(url) ]_vars

\* SLP discovery turned the slp Url into an nfs Url whose server was then
\* resolved
C30_Witness ==
  /\ ret.fn = "url_mount_disk"
  /\ url.scheme = "nfs" /\ url.server = "srv2"
  /\ \E i \in SlpCalls(log) :
       /\ log[i].ok
       /\ \E a \in Activations(log) : a < i
       /\ \E r \in Resolutions(log) : r > i /\ log[r].ok

(***************************************************************************)
(* The Network Bootstrap's contract (SpecSetup).                           *)
(***************************************************************************)
SetupReturned == ret.fn = "url_setup_device"

MaskChecks(l) == { i \in 1..Len(l) : l[i].op = "mask" }
Requests(l) == { i \in 1..Len(l) : l[i].op = "request" }

\* C31: if the static parameters do not suffice url_setup_device sends one
\* request, DHCP or BOOTP as config.net.use_dhcp says, and no request
\* otherwise; an incomplete answer with test mode off makes the call return 0
\* with config.net.configured none, the interface not activated and no
\* second request sent
C31_OneRequestNoRetry ==
  SetupReturned =>
    /\ \A m \in MaskChecks(log) :
         IF log[m].ok THEN Requests(log) = {}
         ELSE /\ Cardinality(Requests(log)) = 1
              /\ \A q \in Requests(log) : q > m
    /\ \A q \in Requests(log) :
         /\ MaskChecks(log) # {}
         /\ log[q].src = IF cfg.use_dhcp THEN "dhcp" ELSE "bootp"
         /\ ~log[q].ok /\ ~cfg.test =>
              /\ ret.val = 0
              /\ cfg.net_configured = "nc_none"
              /\ Activations(log) = {}

\* a BOOTP request got an incomplete answer
C31_Witness ==
  /\ SetupReturned /\ ret.val = 0 /\ ~cfg.test
  /\ \E q \in Requests(log) : log[q].src = "bootp" /\ ~log[q].ok

\* the process-wide network state
NetState(c) ==
  << c.net_device, c.net_hwaddr, c.net_cardname, c.net_unique_id, c.net_configured >>

\* C32: url_setup_device called for a network Url on a device whose name
\* begins with "lo" or "sit" returns 0, does not stop the network and leaves
\* config.net.device, hwaddr, cardname, unique_id and configured as they were
C32_PseudoDeviceRefused ==
  [][ /\ ret'.fn = "url_setup_device"
      /\ url'.is.network
      /\ url'.used.device \in { "lo", "sit0" }
      => /\ ret'.val = 0
         /\ \A i \in 1..Len(log') : log'[i].op # "net_stop"
         /\ NetState(cfg') = NetState(cfg) ]_vars

\* the tunnel device was refused while another interface is configured
C32_Witness ==
  /\ SetupReturned /\ ret.val = 0
  /\ url.is.network /\ url.used.device = "sit0"
  /\ cfg.net_configured # "nc_none" /\ cfg.net_device = "eth0"

\* the call went past the check for pseudo-devices: the network was stopped
PastPseudoCheck(l) == \E i \in 1..Len(l) : l[i].op = "net_stop"

\* C38: after a failed url_setup_device call on a network device that went
\* past the check for pseudo-devices, whatever step failed,
\* config.net.configured is none
C38_FailedSetupLeavesUnconfigured ==
  SetupReturned /\ url.is.network /\ PastPseudoCheck(log) /\ ret.val = 0
    => cfg.net_configured = "nc_none"

\* the scheme capability table, for mountable and network
TableMountable ==
  { "file", "nfs", "smb", "cdrom", "floppy", "hd", "disk", "dvd", "exec" }
TableNetwork == { "slp", "nfs", "ftp", "smb", "http", "tftp" }

\* C39: url.is.mountable and url.is.network are what the scheme capability
\* table says for the Url's scheme, after url_set and after an SLP rewrite of
\* the Url in url_setup_device
C39_FlagsFollowCurrentScheme ==
  /\ url.is.mountable <=> url.scheme \in TableMountable
  /\ url.is.network <=> url.scheme \in TableNetwork

(***************************************************************************)
(* Repository discovery (SpecRepo).                                        *)
(***************************************************************************)
InstsysMounts(l) == { i \in MountEvents(l) : l[i].mp = "instsys" }

\* C9: when test_is_repo rejects after it mounted instsys, that mount is
\* gone on return and config.url.instsys->mount is empty.
C9_RejectedRepoUnwindsInstsys ==
  MountDiskFailed /\ InstsysMounts(log) # {}
  => /\ \A i \in InstsysMounts(log) : \E k \in UmountAfter(log, i) : log[k].ok
     /\ cfg.instsys_mount = NULL

(***************************************************************************)
(* The accept test's contract (SpecTest).                                  *)
(***************************************************************************)
TestReturned == ret.fn = "test_is_repo"

Reads(l, src) == { i \in 1..Len(l) : l[i].op = "read" /\ l[i].src = src }
Verifies(l) == { i \in 1..Len(l) : l[i].op = "verify" }

\* C33: test_is_repo rejects the candidate when /content cannot be fetched
\* and, in secure mode, when /content.asc cannot be fetched; a signature
\* that does not verify sets config.sig_failed and rejects nothing: after it
\* only the payload stage can still reject.
C33_ManifestRequired ==
  TestReturned
  => /\ (\E i \in Reads(log, "/content") : ~log[i].ok) => ret.val = 0
     /\ (\E i \in Reads(log, "/content.asc") : ~log[i].ok) => ret.val = 0
     /\ ~conf.secure => Reads(log, "/content.asc") = {} /\ Verifies(log) = {}
     /\ \A i \in Verifies(log) :
          ~log[i].ok => /\ cfg.sig_failed
                        /\ ret.val = 0 => conf.instsys_scheme = "rel" /\ ~conf.kexec

\* a candidate whose signature did not verify was accepted
C33_Witness ==
  /\ TestReturned
  /\ ret.val = 1
  /\ cfg.sig_failed
  /\ \E i \in Verifies(log) : ~log[i].ok

\* the mounts test_is_repo made for the second payload
Instsys2Mounts(l) == { i \in MountEvents(l) : l[i].mp # "instsys" }

\* C34: what test_is_repo mounts for the second payload is the second
\* payload's own image, in place or downloaded, never the first payload's;
\* and config.url.instsys2->mount names a mountpoint only while that image
\* is mounted there.
C34_SecondPayloadOwnPath ==
  TestReturned
  => /\ \A i \in Instsys2Mounts(log) : log[i].src \in { "instsys2", "download_instsys2" }
     /\ cfg.instsys2_mount # NULL => Active(mounts, cfg.instsys2_mount)

ReadEvents(l) == { i \in 1..Len(l) : l[i].op = "read" }

\* config.sha1_failed after the calls l records from index i on, when it was
\* f before them: set by a download whose digest is not listed, cleared by
\* a signature that verifies
RECURSIVE Sha1FailedAfter(_, _, _)
Sha1FailedAfter(l, i, f) ==
  IF i > Len(l) THEN f
  ELSE Sha1FailedAfter(l, i + 1,
                       IF l[i].op = "verify" /\ l[i].ok THEN FALSE
                       ELSE IF l[i].op = "read" /\ l[i].val = "unlisted" THEN TRUE
                       ELSE f)

\* C35: a digest that is not listed never fails a transfer: in secure mode
\* url_read_file still returns 0 and sets config.sha1_failed; with
\* URL_FLAG_NOSHA1 the digest is not checked and the flag is left alone; and
\* over a whole test_is_repo call the flag changes in no other way than by
\* such a download or by a signature check that succeeds, which clears it.
C35_DigestMismatchOnlyFlags ==
  [][ TestReturned'
      => /\ \A i \in ReadEvents(log') :
              /\ log'[i].val = "unlisted" => conf.secure /\ log'[i].ok /\ log'[i].now
              /\ log'[i].nosha1 => /\ log'[i].val \in { "none", "unchecked" }
                                   /\ log'[i].now = log'[i].was
              /\ log'[i].now # log'[i].was => log'[i].val = "unlisted"
         /\ cfg'.sha1_failed = Sha1FailedAfter(log', 1, cfg.sha1_failed) ]_vars

\* a payload whose digest is not listed was downloaded, mounted and accepted
\* with config.sha1_failed set
C35_Witness ==
  /\ TestReturned
  /\ ret.val = 1
  /\ cfg.sha1_failed
  /\ \E i \in ReadEvents(log) : log[i].val = "unlisted" /\ log[i].ok /\ ~log[i].was

\* the number a name of the form "<word> <integer>" ends with, 0 for any
\* other name: a word, one space, decimal digits
NamedSize(name) ==
  LET P == { p \in 2..(Len(name) - 1) :
               /\ name[p] = 32
               /\ \A k \in 1..(p - 1) : name[k] # 32
               /\ \A k \in (p + 1)..Len(name) : name[k] \in 48..57 }
  IN  IF P = {} THEN 0
      ELSE LET p == CHOOSE q \in P : TRUE
           IN  ScanDigits(name, p + 1, 0)

\* what the captured name says the image measures, in kB; 0 if it says nothing
SizeNamed == IF xf.d.orig_name = None THEN 0 ELSE NamedSize(xf.d.orig_name[1])

\* the sniffed header has been looked at and the output opened, or not
SniffResolved == xf.phase # "new" /\ xf.d.file_opened

\* mkstemp() or open() failed when the decompressor was to be started
GzipNotStarted == xf.d.gzip /\ xf.d.err \in { 1, 101 }

\* C36: a captured name "<word> <n>" with n > 0 makes n the image size in
\* kB and, for a gzip stream, n * 1024 the total of the decompressed bytes;
\* with any other name or none that total stays 0.
C36_NamedSizeIsTotal ==
  SniffResolved
  => IF SizeNamed > 0
     THEN /\ xf.d.image_size = SizeNamed
          /\ xf.d.gzip => xf.d.zp_total = SizeNamed * 1024
     ELSE xf.d.zp_total = 0

\* C36 (amended): the same, for a gzip stream whose decompressor was
\* started; if mkstemp() or open() failed the transfer ends with that error
\* and the total stays 0, as it does for a stream that is not gzip.
C36_NamedSizeIsTotalOnceStarted ==
  SniffResolved
  => IF SizeNamed > 0
     THEN /\ xf.d.image_size = SizeNamed
          /\ xf.d.zp_total = IF xf.d.gzip /\ ~GzipNotStarted THEN SizeNamed * 1024
                              ELSE 0
     ELSE xf.d.zp_total = 0 /\ xf.d.image_size = 0

\* a gzip stream named "x 2" was decompressed to its end with a total of
\* 2048 bytes
C36_Witness ==
  /\ xf.phase = "done"
  /\ xf.d.err = 0
  /\ xf.d.gzip
  /\ SizeNamed = 2
  /\ xf.d.image_size = 2
  /\ xf.d.zp_total = 2048

\* C37: from the first statement of url_read to its last SIGPIPE is
\* ignored, whatever the transfer, the decompressor and the callbacks do,
\* and when url_read has returned the disposition is the caller's again.
C37_SigpipeIgnoredThenRestored ==
  /\ xf.phase \in { "perform", "performed", "flushed" }
     => xf.sigpipe = "SIG_IGN" /\ xf.old_sigpipe = xf.caller_sigpipe
  /\ xf.phase = "done" => xf.sigpipe = xf.caller_sigpipe

\* url_read has returned with an error to a caller that does not ignore
\* SIGPIPE
C37_Witness ==
  /\ xf.phase = "done"
  /\ xf.d.err # 0
  /\ xf.caller_sigpipe = "SIG_DFL"
  /\ xf.sigpipe = "SIG_DFL"
  /\ xf.old_sigpipe = "SIG_DFL"

(***************************************************************************)
(* url_read_file's contract (SpecRead).                                    *)
(***************************************************************************)
\* C40: url_read_file returns with the caller's url->path as it was, with or
\* without src, for every scheme and whether it succeeded or failed.
C40_PathUnchanged ==
  [][ret'.fn = "url_read_file" => url'.path = url.path]_vars

(***************************************************************************)
(* The Transfer Pipeline (SpecTransfer).                                   *)
(***************************************************************************)
\* the digest of a byte string taken in one piece
Sha1Of(bytes) == sha1_finish_ctx(sha1_process_bytes(bytes, sha1_init_ctx))

Delivered == SubSeq(xf.content, 1, xf.pos)

\* C10: the digest is that of the bytes received, however they were cut
\* into chunks: every chunk is folded in, in arrival order, before any of it
\* is buffered or written.
C10_DigestOfContentOnly ==
  /\ xf.phase \in { "perform", "performed", "flushed", "done" }
     => /\ xf.d.sha1_ctx = sha1_process_bytes(Delivered, sha1_init_ctx)
        /\ xf.d.buf_len + Len(xf.d.out) <= xf.d.sha1_ctx.n + Len(xf.d.sha1_ctx.pending)
  /\ xf.phase = "done" /\ xf.d.err = 0 => xf.d.sha1 = Some(Sha1Of(xf.content))

\* a transfer that came in several chunks, the first smaller than the sniff
\* buffer, and ended with its digest taken
C10_Witness ==
  /\ xf.phase = "done"
  /\ xf.d.err = 0
  /\ xf.chunked
  /\ xf.d.sha1 # None
  /\ Len(xf.content) > BufMax
  /\ Len(xf.d.out) = Len(xf.content)

\* the stream begins with the gzip magic 1F 8B
GzipStream == Len(xf.content) >= 2 /\ IsGzip(xf.content)

\* the stream begins with the cramfs magic, in either byte order
CramfsStream == Len(xf.content) >= 4 /\ IsCramfs(xf.content)

\* the sniff buffer was released: it had filled, or the stream ended without
\* error and url_read flushed it
Sniffed == xf.phase # "none" /\ xf.d.buf_max = 0

C12_WrittenIsReceived ==
  xf.phase # "none"
  => /\ Len(xf.d.out) > 0 => xf.pos >= BufMax \/ xf.phase \in { "flushed", "done" }
     /\ Len(xf.d.out) <= xf.pos
     /\ xf.d.out = SubSeq(Delivered, 1, Len(xf.d.out))
     /\ xf.phase = "done" /\ xf.d.err = 0 /\ ~xf.d.gzip => xf.d.out = xf.content

\* a stream longer than the sniff buffer, not gzip, that came in several
\* chunks and was written whole
C12_Witness ==
  /\ xf.phase = "done"
  /\ xf.d.err = 0
  /\ ~xf.d.gzip
  /\ xf.chunked
  /\ Len(xf.content) > BufMax
  /\ xf.d.out = xf.content

\* the progress shown is a percentage: url_progress is the indicator and a
\* total is known
ShowsPercent(x) ==
  /\ x.phase \notin { "none", "new" }
  /\ x.d.progress = "url_progress"
  /\ x.d.p_total # 0 \/ x.d.zp_total # 0

\* C13: the percentage shown never exceeds 100 and never decreases from one
\* report to the next.
C13_PercentMonotone ==
  [][ ShowsPercent(xf) /\ ShowsPercent(xf')
      => xf'.d.percent <= 100 /\ xf'.d.percent >= xf.d.percent ]_vars

\* min(100, 100 * now / total)
PercentOf(now, total) == Min(100, (100 * now) \div total)

\* C14: the percentage is taken of the decompressed total whenever that is
\* known and of the raw total only otherwise; with no total known a kB count
\* is shown instead.
C14_PercentOfDecompressedTotal ==
  xf.phase \notin { "none", "new" } /\ xf.d.progress = "url_progress"
  => IF xf.d.zp_total # 0
     THEN xf.d.percent = PercentOf(xf.d.zp_now, xf.d.zp_total)
     ELSE IF xf.d.p_total # 0
     THEN xf.d.percent = PercentOf(xf.d.p_now, xf.d.p_total)
     ELSE xf.d.percent \in { -1, (IF xf.d.zp_now # 0 THEN xf.d.zp_now
                                                     ELSE xf.d.p_now) \div 1024 }

\* CURLE_ABORTED_BY_CALLBACK and url_write_cb's own code: the error codes a
\* veto of the progress indicator is reported with
VetoCodes == { 42, 102 }

\* C15: once the progress indicator has returned non-zero at an update,
\* nothing more is written, and url_read ends with the veto's error code
\* and without a digest.
C15_VetoAbortsTransfer ==
  [][ /\ xf.phase # "none" /\ xf.d.vetoed => xf'.d.out = xf.d.out
      /\ xf'.phase = "done" /\ xf'.d.vetoed
         => xf'.d.err \in VetoCodes /\ xf'.d.sha1 = None ]_vars

\* the message has the text in it
Contains(msg, text) ==
  \E i \in 1..(Len(msg) - Len(text) + 1) : SubSeq(msg, i, i + Len(text) - 1) = text

\* what the decompressor wrote to stderr, without the white space around it
StderrText == TrimLeft(TrimRight(xf.d.gz_stderr))

\* C16: a decompressor that exits with a code other than 0 or 2 makes the
\* transfer end with err = 103 and a message that has the decompressor's
\* stderr text in it, if there is any; exit codes 0 and 2 are no
\* decompression error.
C16_DecompressorFailureReported ==
  xf.phase = "done" /\ xf.d.gz_exit >= 0
  => IF xf.d.gz_exit \notin { 0, 2 }
     THEN /\ xf.d.err = 103
          /\ StderrText # NoMsg => Contains(xf.d.err_buf, StderrText)
     ELSE xf.d.err # 103

\* C17: when url_read has returned, the temporary file that took the
\* decompressor's stderr does not exist.
C17_TemporaryFileRemoved == xf.phase = "done" => ~xf.d.tmp_exists

\* a transfer that had made the temporary file and then failed to open its
\* destination
C17_Witness ==
  /\ xf.phase = "done"
  /\ xf.d.tmp_file # NULL
  /\ xf.d.err = 101

\* the scheme a string names: before its ':', or as a whole without one
NamedScheme(s) ==
  IF strchr(s, ":") > 0 THEN file_sym2num(Take(s, strchr(s, ":") - 1))
  ELSE file_sym2num(s)

\* url_set() has returned for a string that is not NULL
Parsed == pr.phase \in { "set", "printed", "reset" } /\ pr.str # None

\* C18: for every URL string with a mountable scheme url_set yields a
\* non-empty path that begins with '/', also when the string has no path or
\* a path without a leading '/'
C18_MountablePathIsAbsolute ==
  Parsed /\ NamedScheme(pr.str[1]) \in Mountable
    => /\ pr.url.path # None
       /\ pr.url.path[1] # << >>
       /\ pr.url.path[1][1] = "/"

\* "nfs:" has been parsed: a mountable scheme and no path at all
C18_Witness ==
  /\ pr.phase = "set"
  /\ pr.str = Some(SchemeNames["nfs"] \o << ":" >>)
  /\ pr.url.path = Some(<< "/" >>)

ValidUrlString(s) ==
  strchr(s, ":") > 0 /\ NamedScheme(s) \in DOMAIN SchemeNames \ { "none" }

RoundTripFields ==
  { "scheme", "server", "port", "share", "path", "user", "password", "domain" }

\* url_print(.., 2) of the Url of a valid string has been parsed again
RoundTripDone ==
  /\ pr.phase = "reset"
  /\ pr.format = 2
  /\ pr.str # None
  /\ ValidUrlString(pr.str[1])

\* C20: for every syntactically valid URL string s,
\* url_set(url_print(url_set(s), full format)) equals url_set(s) in scheme,
\* server, port, share, path, user, password and domain, also when
\* components hold percent-encoded or reserved characters
C20_RoundTrip ==
  RoundTripDone => \A f \in RoundTripFields : pr.url2[f] = pr.url[f]

\* url_set() has returned
UrlSetReturned == pr.phase \in { "set", "printed", "reset" }

\* C21: after url_set is.mountable is set exactly for file, nfs, smb, cdrom,
\* dvd, floppy, hd, disk, exec; is.network exactly for slp, nfs, ftp, smb,
\* http, tftp; is.cdrom exactly for cdrom and dvd; all three are clear for
\* scheme none and relative
C21_FlagsFollowSchemeTable ==
  UrlSetReturned =>
    /\ pr.url.is.mountable
         <=> pr.url.scheme \in { "file", "nfs", "smb", "cdrom", "dvd", "floppy",
                                 "hd", "disk", "exec" }
    /\ pr.url.is.network
         <=> pr.url.scheme \in { "slp", "nfs", "ftp", "smb", "http", "tftp" }
    /\ pr.url.is.cdrom <=> pr.url.scheme \in { "cdrom", "dvd" }
    /\ pr.url.scheme \in { "none", "rel" }
         => ~pr.url.is.mountable /\ ~pr.url.is.network /\ ~pr.url.is.cdrom

\* a dvd Url has been parsed: mountable, a CD-ROM, not network
C21_Witness ==
  /\ pr.phase = "set"
  /\ pr.url.scheme = "dvd"
  /\ pr.url.is.mountable /\ pr.url.is.cdrom /\ ~pr.url.is.network

\* the path of a string as url_set has it before it looks for a device name
PathOfString(s) ==
  LET r == us_split(s) IN
  us_unescape(us_share(IF r.tmp # None THEN us_authority(r.u, r.tmp[1]) ELSE r.u)).path

\* the file name under /dev a path stands for, with or without its own "dev/"
UnderDev(p) ==
  IF Len(p) >= 3 /\ Take(p, 3) = << "d", "e", "v" >> /\ (Len(p) = 3 \/ p[4] = "/")
  THEN << "/" >> \o p ELSE DevDir \o p

\* the ends of the prefixes of a file name, cut at a '/' or whole, that are
\* block devices
BlkPrefixes(n) ==
  { k \in 1..Len(n) : (k = Len(n) \/ n[k + 1] = "/") /\ stat(Take(n, k)) = "blk" }

\* s with a leading '/'
Slashed(s) == IF s # << >> /\ s[1] = "/" THEN s ELSE << "/" >> \o s

\* url_set has returned for a disk-family string
DiskFamilyParsed ==
  /\ Parsed
  /\ pr.url.scheme \in { "disk", "cdrom", "dvd", "floppy", "hd" }
  /\ PathOfString(pr.str[1]) # None

\* the device the query of the parsed Url asks for: None without a device
\* entry or with an empty one
QueryDevice ==
  LET d == slist_getentry(pr.url.query, QDevice) IN
  IF d = None \/ d[1].value = None \/ short_dev_str(d[1].value[1]) = << >> THEN None
  ELSE Some(short_dev_str(d[1].value[1]))

\* C22 as stated: for a disk-family URL whose path begins with a device name,
\* with or without a leading "dev/", device is the short name of the path
\* prefix under /dev that is a block device and path the remainder with a
\* leading '/'; when no prefix is a block device the path is kept whole and
\* no device is derived from it
C22_DeviceSplitFromPath ==
  DiskFamilyParsed =>
    LET n == UnderDev(PathOfString(pr.str[1])[1]) IN
    IF BlkPrefixes(n) # {}
    THEN \E k \in BlkPrefixes(n) :
           /\ pr.url.device = Some(short_dev_str(Take(n, k)))
           /\ pr.url.path = Some(Slashed(Drop(n, k + 1)))
    ELSE /\ pr.url.path = Some(Slashed(PathOfString(pr.str[1])[1]))
         /\ pr.url.device = QueryDevice

\* C22: the same, but a device entry in the query decides the device
\* whenever there is one, also when a device name was split from the path
C22_DeviceSplitUnlessQuery ==
  DiskFamilyParsed =>
    LET n == UnderDev(PathOfString(pr.str[1])[1])
        entry == slist_getentry(pr.url.query, QDevice) # None
    IN IF BlkPrefixes(n) # {}
       THEN \E k \in BlkPrefixes(n) :
              /\ pr.url.device = IF entry THEN QueryDevice
                                 ELSE Some(short_dev_str(Take(n, k)))
              /\ pr.url.path = Some(Slashed(Drop(n, k + 1)))
       ELSE /\ pr.url.path = Some(Slashed(PathOfString(pr.str[1])[1]))
            /\ pr.url.device = QueryDevice

\* "disk:/m/x/a/b" has been parsed: the device is two names deep under /dev
C22_Witness ==
  /\ pr.phase = "set"
  /\ pr.str = Some(SchemeNames["disk"] \o << ":", "/", "m", "/", "x", "/", "a", "/", "b" >>)
  /\ pr.url.device = Some(<< "m", "/", "x" >>)
  /\ pr.url.path = Some(<< "/", "a", "/", "b" >>)

====
